---- MODULE Spec2Model ----
(***************************************************************************)
(* A model of the utility functions of sanji (src/util/normal.py,          *)
(* src/util/demo.py, src/util.py, src/util_dateutil.py).                   *)
(*                                                                         *)
(* The functions are pure; each family is driven by a small harness whose *)
(* initial states enumerate the arguments and whose actions are the calls. *)
(*   SpecRound : round_half_up                                             *)
(*   SpecSeq   : fill_seq, strip_seq, seq_grouper                          *)
(*   SpecKind  : KindTree.__init__, KindTree.get, KindTree.gets            *)
(*   SpecPq    : PrioQueue.from_pairs, PrioQueue.put, PrioQueue.get        *)
(*   SpecSer   : DictSerializer.encode, DictSerializer.decode              *)
(*   SpecCid   : CaseInsensitiveDict (both classes)                        *)
(*   SpecVer   : Version.parse and the comparisons                         *)
(*   SpecBit   : BitField                                                  *)
(*   SpecMerge : merge_sorted_list                                         *)
(*   SpecSym   : round_half_up of n and of -n (both functions)             *)
(*   SpecGrp   : sequence_grouper beside seq_grouper                       *)
(*   SpecYr    : yearly_ranges                                             *)
(*   SpecMemo  : Memoize                                                   *)
(* Spec is the union of the families.                                      *)
(*                                                                         *)
(* Python values are modelled as follows.                                  *)
(*   - a number is [val, scale], the decimal val / 10^scale (an int has    *)
(*     scale 0); the result of a call carries the exception it raised in   *)
(*     the field exc ("none" when it returned).                            *)
(*   - a str is a sequence of one-character strings.                       *)
(***************************************************************************)
EXTENDS Integers, Sequences, FiniteSets, TLC

VARIABLES
    family,     \* which harness runs: "round", "seq", "kind", "pq", "ser", "cid",
                \* "ver", "bit", "merge", "sym", "grp", "yr" or "memo"
    number,     \* round_half_up: argument number, [val, scale]
    ndigits,    \* round_half_up: argument ndigits
    rpc,        \* round_half_up: "start" before the call, "done" after it
    result,     \* round_half_up: [exc, val, scale]
    seq,        \* sequence family: argument seq, [type, items]
    size,       \* sequence family: argument size
    filler,     \* sequence family: argument filler, [type, items]
    calls,      \* sequence family: fill_seq / strip_seq calls made, in order
    gen,        \* generator returned by seq_grouper(seq, size)
    fgen,       \* generator returned by seq_grouper(seq, size, filler)
    values,     \* KindTree: the table, a sequence of rows [id, parent_id, const]
    kpc,        \* KindTree.__init__: the statement about to run
    ki,         \* KindTree.__init__: position of the running for loop
    data1,      \* KindTree.__init__: dict id -> parent_id of the table
    keys1,      \* KindTree.__init__: the keys of data1 in insertion order
    consts,     \* KindTree.__init__: dict id -> constant name
    data2,      \* KindTree.__init__: dict id -> [parent_id, root_id, parent_ids]
    childs,     \* KindTree.__init__: defaultdict id -> set of ids
    parent_ids, \* KindTree.__init__: ancestors collected by the running walk
    parent_id,  \* KindTree.__init__: the ancestor the walk looks at next
    nodes,      \* KindTree.__init__: dict id -> KindNode built so far
    attrs,      \* KindTree: attributes set by setattr, name -> id of the node
    treeNodes,  \* KindTree: self.nodes, [set, map]
    kexc,       \* KindTree.__init__: the exception raised, "none" if none
    qres,       \* KindTree: the last get / gets call, [fn, args, out]
    asc,        \* PrioQueue: _asc
    _heap,      \* PrioQueue: _heap, a list of <<priority, index, item>>
    _index,     \* PrioQueue: _index
    pqres,      \* PrioQueue: outcome of the last put or get, [fn, exc, item]
    putlog,     \* PrioQueue harness: the priority of every put, in order
    getlog,     \* PrioQueue harness: every item got, with the puts made before
    sdata,      \* DictSerializer: the dict, a sequence of items [k, v] in insertion order
    senc,       \* DictSerializer: [set, s], the str returned by encode(data)
    sdec,       \* DictSerializer: [set, d], the dict returned by decode(encode(data))
    spc,        \* DictSerializer harness: "idle", "start", "encoded" or "decoded"
    ccls,       \* CaseInsensitiveDict: the class, "demo" (util/demo.py) or "util" (util.py)
    cdata,      \* CaseInsensitiveDict: self.data, a dict str -> value
    cres,       \* CaseInsensitiveDict: the last call, [op, key, val, before, exc, out]
    vin,        \* Version harness: the numbers the two version strings are written from
    vstr,       \* Version: the two version strings
    vobj,       \* Version: the results of Version.parse so far, [none, major, minor, revision]
    vcmp,       \* Version: [set, eq, lt, le, gt, ge] of the first against the second
    bpc,        \* BitField harness: "idle", "new" before the constructor, "made" after
    bids,       \* BitField: self.ids
    bhist,      \* BitField harness: the flags given at construction or added, less those removed
    bres,       \* BitField: the last call, [op, value, before, out]
    margs,      \* merge_sorted_list harness: the two lists as they were passed
    ma1,        \* merge_sorted_list: the list a1
    ma2,        \* merge_sorted_list: the list a2
    midx,       \* merge_sorted_list: [idx1, idx2, n], n the iterations of the for loop done
    mout,       \* merge_sorted_list: the values yielded so far
    mpc,        \* merge_sorted_list: "idle", "start", "running" or "exhausted"
    yver,       \* round_half_up symmetry: the version called, "normal" (util/normal.py) or "util" (util.py)
    yn,         \* round_half_up symmetry: the integer n
    ynd,        \* round_half_up symmetry: ndigits
    ypos,       \* round_half_up symmetry: the result of round_half_up(n, ndigits)
    yneg,       \* round_half_up symmetry: the result of round_half_up(-n, ndigits)
    gseq,       \* grouping: the argument sequence, [type, items]
    gsize,      \* grouping: the argument size
    gold,       \* grouping: the generator returned by sequence_grouper(sequence, size)
    gnew,       \* grouping: the generator returned by seq_grouper(seq, size)
    yrargs,     \* yearly_ranges: the arguments [begin, end, years, find_date]
    yrbegin,    \* yearly_ranges: the local begin, reassigned by the loop
    yrranges,   \* yearly_ranges: the local list ranges
    yrpc,       \* yearly_ranges: "call", "loop", "find" or "done"
    yrres,      \* yearly_ranges: what the call returned or raised
    mdict,      \* Memoize: the __dict__ of each instance
    mfield,     \* Memoize: the field of each instance that the wrapped functions read
    mcalls,     \* Memoize: how often each wrapped function ran on each instance
    mlog        \* Memoize: the attribute reads made so far, [inst, prop, value]

roundVars == <<number, ndigits, rpc, result>>
seqVars == <<seq, size, filler, calls, gen, fgen>>
kindVars == <<values, kpc, ki, data1, keys1, consts, data2, childs, parent_ids,
              parent_id, nodes, attrs, treeNodes, kexc, qres>>
pqVars == <<asc, _heap, _index, pqres, putlog, getlog>>
serVars == <<sdata, senc, sdec, spc>>
earlyVars == <<roundVars, seqVars, kindVars, pqVars>>
cidVars == <<ccls, cdata, cres>>
verVars == <<vin, vstr, vobj, vcmp>>
bitVars == <<bpc, bids, bhist, bres>>
mergeVars == <<margs, ma1, ma2, midx, mout, mpc>>
symVars == <<yver, yn, ynd, ypos, yneg>>
grpVars == <<gseq, gsize, gold, gnew>>
yrVars == <<yrargs, yrbegin, yrranges, yrpc, yrres>>
memoVars == <<mdict, mfield, mcalls, mlog>>
lateVars == <<serVars, cidVars, verVars, bitVars, mergeVars, symVars, grpVars, yrVars,
              memoVars>>
vars == <<family, number, ndigits, rpc, result, seq, size, filler, calls, gen, fgen,
          values, kpc, ki, data1, keys1, consts, data2, childs, parent_ids,
          parent_id, nodes, attrs, treeNodes, kexc, qres,
          asc, _heap, _index, pqres, putlog, getlog, lateVars>>

(***************************************************************************)
(* The state of a family while another family runs, and the frame of an    *)
(* action of family f over the families added after PrioQueue.             *)
(***************************************************************************)
SerIdle ==
    /\ sdata = <<>> /\ spc = "idle"
    /\ senc = [set |-> FALSE, s |-> <<>>]
    /\ sdec = [set |-> FALSE, d |-> <<>>]

NoCall == [op |-> "none"]

CidIdle == ccls = "none" /\ cdata = <<>> /\ cres = NoCall

NoCompare == [set |-> FALSE, eq |-> FALSE, lt |-> FALSE, le |-> FALSE,
              gt |-> FALSE, ge |-> FALSE]

VerIdle == vin = <<>> /\ vstr = <<>> /\ vobj = <<>> /\ vcmp = NoCompare

BitIdle == bpc = "idle" /\ bids = 0 /\ bhist = {} /\ bres = NoCall

MergeIdle ==
    /\ margs = <<>> /\ ma1 = <<>> /\ ma2 = <<>>
    /\ midx = [idx1 |-> 0, idx2 |-> 0, n |-> 0] /\ mout = <<>> /\ mpc = "idle"

NotCalled == [exc |-> "pending", val |-> 0, scale |-> 0]

SymIdle == yver = "none" /\ yn = 0 /\ ynd = 0 /\ ypos = NotCalled /\ yneg = NotCalled

NotGenerated == [state |-> "none", seq |-> [type |-> "str", items |-> <<>>],
                 i |-> 0, stop |-> 0, out |-> <<>>]

GrpIdle ==
    /\ gseq = [type |-> "str", items |-> <<>>] /\ gsize = 1
    /\ gold = NotGenerated /\ gnew = NotGenerated

\* find_date=None
NoDate == [year |-> 0, month |-> 0, day |-> 0]

NotReturned == [kind |-> "none"]

YrIdle ==
    /\ yrargs = [begin |-> NoDate, end |-> NoDate, years |-> 1, find_date |-> NoDate]
    /\ yrbegin = NoDate /\ yrranges = <<>> /\ yrpc = "idle" /\ yrres = NotReturned

\* the instances of the class that carries the memoized properties
Instances == {"x", "y"}

\* the names of the functions wrapped by Memoize in that class
Props == {"a", "b"}

MemoIdle ==
    /\ mdict = [i \in Instances |-> <<>>]
    /\ mfield = [i \in Instances |-> 0]
    /\ mcalls = [i \in Instances |-> [p \in Props |-> 0]]
    /\ mlog = <<>>

LateIdleExcept(f) ==
    /\ IF f = "ser" THEN TRUE ELSE SerIdle
    /\ IF f = "cid" THEN TRUE ELSE CidIdle
    /\ IF f = "ver" THEN TRUE ELSE VerIdle
    /\ IF f = "bit" THEN TRUE ELSE BitIdle
    /\ IF f = "merge" THEN TRUE ELSE MergeIdle
    /\ IF f = "sym" THEN TRUE ELSE SymIdle
    /\ IF f = "grp" THEN TRUE ELSE GrpIdle
    /\ IF f = "yr" THEN TRUE ELSE YrIdle
    /\ IF f = "memo" THEN TRUE ELSE MemoIdle

LateIdle == LateIdleExcept("none")

LateFrame(f) ==
    /\ IF f = "ser" THEN TRUE ELSE UNCHANGED serVars
    /\ IF f = "cid" THEN TRUE ELSE UNCHANGED cidVars
    /\ IF f = "ver" THEN TRUE ELSE UNCHANGED verVars
    /\ IF f = "bit" THEN TRUE ELSE UNCHANGED bitVars
    /\ IF f = "merge" THEN TRUE ELSE UNCHANGED mergeVars
    /\ IF f = "sym" THEN TRUE ELSE UNCHANGED symVars
    /\ IF f = "grp" THEN TRUE ELSE UNCHANGED grpVars
    /\ IF f = "yr" THEN TRUE ELSE UNCHANGED yrVars
    /\ IF f = "memo" THEN TRUE ELSE UNCHANGED memoVars

(***************************************************************************)
(* Bounds of the harnesses.                                                *)
(***************************************************************************)
MaxNum == 2600          \* integers -MaxNum .. MaxNum
MaxNegDigits == 3       \* ndigits in -MaxNegDigits .. 0 for integers
MaxCoeff == 160         \* decimal coefficients -MaxCoeff .. MaxCoeff
MaxScale == 3           \* fractional digits of a decimal argument
MaxPosDigits == 2       \* ndigits in 1 .. MaxPosDigits for decimals
MaxLen == 4             \* longest argument sequence
MaxSize == 3            \* size in 1 .. MaxSize
MaxCalls == 2           \* fill_seq / strip_seq calls in one run
MaxRows == 3            \* rows of a KindTree table
MaxGets == 2            \* ids passed to one KindTree.gets call
MaxPuts == 4            \* entries put into one PrioQueue
MaxPrio == 1            \* priorities are -MaxPrio .. MaxPrio
MaxPairs == 2           \* pairs passed to PrioQueue.from_pairs
MaxSerLen == 2          \* longest key / str value of a DictSerializer dict
MaxSerList == 2         \* longest list value of a DictSerializer dict
MaxVer == 2             \* parts of a version string are 0 .. MaxVer, or 10
MaxBits == 4            \* flags of a BitField are 1 << 0 .. 1 << (MaxBits - 1)
MaxMergeLen == 3        \* longest list passed to merge_sorted_list
MaxMergeVal == 2        \* its items are 0 .. MaxMergeVal
MaxSymNum == 2600       \* round_half_up(n, .) and round_half_up(-n, .) for n in 0 .. MaxSymNum
MaxSpan == 3            \* dates of yearly_ranges lie in the years MAXYEAR - MaxSpan .. MAXYEAR
MaxYears == 2           \* the years argument of yearly_ranges is -1 .. MaxYears
MaxReads == 3           \* attribute reads in one run of the Memoize harness
MaxField == 1           \* the field read by a memoized function is 0 .. MaxField

(***************************************************************************)
(* Python built-ins used by the code.                                      *)
(***************************************************************************)
RECURSIVE Pow10(_)
Pow10(k) == IF k <= 0 THEN 1 ELSE 10 * Pow10(k - 1)

Abs(n) == IF n < 0 THEN -n ELSE n

DigitChars == <<"0", "1", "2", "3", "4", "5", "6", "7", "8", "9">>

RECURSIVE Digits(_)
Digits(n) == IF n < 10 THEN <<DigitChars[n + 1]>>
             ELSE Append(Digits(n \div 10), DigitChars[(n % 10) + 1])

\* str(number) for an int: the decimal digits, "-" in front of a negative one.
PyStr(n) == IF n < 0 THEN <<"-">> \o Digits(-n) ELSE Digits(n)

Ok(v) == [exc |-> "none", val |-> v, scale |-> 0]
Raise(e) == [exc |-> e, val |-> 0, scale |-> 0]

\* s[k]: a negative k counts from the end; out of range raises IndexError.
PyIndex(s, k) ==
    LET idx == IF k < 0 THEN k + Len(s) ELSE k
    IN  IF idx < 0 \/ idx >= Len(s) THEN [exc |-> "IndexError", ch |-> ""]
        ELSE [exc |-> "none", ch |-> s[idx + 1]]

\* int(c) for a one-character string: ValueError unless c is a digit.
PyInt(c) ==
    IF \E d \in 1..10 : DigitChars[d] = c
    THEN Ok((CHOOSE d \in 1..10 : DigitChars[d] = c) - 1)
    ELSE Raise("ValueError")

\* round(n, nd) for an int n and nd <= 0: the multiple of 10^-nd nearest to
\* n, a tie going to the even multiple (CPython's long.__round__).
PyRound(n, nd) ==
    LET p == Pow10(-nd)
        r == n % p
        q == (n - r) \div p
    IN  IF 2 * r > p \/ (2 * r = p /\ q % 2 = 1) THEN n - r + p ELSE n - r

(***************************************************************************)
(* round_half_up                                                           *)
(***************************************************************************)
\* The inner helper: int(str(number)[_ndigits - 1]).
_get_number(n, nd) ==
    LET c == PyIndex(PyStr(n), nd - 1)
    IN  IF c.exc # "none" THEN Raise(c.exc) ELSE PyInt(c.ch)

\* The branch ndigits <= 0.  The three conditions are the items of a tuple,
\* so all of them are evaluated, in order, before all() looks at any.
round_half_up_int(n, nd) ==
    LET half_even_result == PyRound(n, nd)
        retained == _get_number(n, nd)
        below == _get_number(n, nd + 1)
        zeros == n % Pow10(Abs(nd + 1)) = 0
    IN  IF retained.exc # "none" THEN retained
        ELSE IF below.exc # "none" THEN below
        ELSE IF retained.val % 2 = 0 /\ below.val = 5 /\ zeros
             THEN Ok(half_even_result + Pow10(Abs(nd)))
             ELSE Ok(half_even_result)

\* quantize with rounding=ROUND_HALF_EVEN, which the code does not use: an
\* exact half goes to the even neighbour.
QuantizeHalfEven(c, sc, nd) ==
    IF sc <= nd THEN c * Pow10(nd - sc)
    ELSE LET k == sc - nd
             m == Abs(c)
             kept == m \div Pow10(k)
             first == (m \div Pow10(k - 1)) % 10
             rest == m % Pow10(k - 1)
             up == first > 5 \/ (first = 5 /\ (rest # 0 \/ kept % 2 = 1))
         IN  (IF c < 0 THEN -1 ELSE 1) * (kept + (IF up THEN 1 ELSE 0))

\* Decimal.quantize(position, rounding=ROUND_HALF_UP) of the decimal
\* c / 10^sc to nd fractional digits: the digits beyond nd are dropped and
\* the kept coefficient is incremented when the first dropped digit is 5..9;
\* the sign is kept.
QuantizeHalfUp(c, sc, nd) ==
    IF sc <= nd THEN c * Pow10(nd - sc)
    ELSE LET k == sc - nd
             m == Abs(c)
             kept == m \div Pow10(k)
             first == (m \div Pow10(k - 1)) % 10
         IN  (IF c < 0 THEN -1 ELSE 1) * (kept + (IF first >= 5 THEN 1 ELSE 0))

\* The branch ndigits > 0: Decimal(str(number)) quantized to '0.0..01'.
round_half_up_decimal(num, nd) ==
    [exc |-> "none", val |-> QuantizeHalfUp(num.val, num.scale, nd), scale |-> nd]

round_half_up(num, nd) ==
    IF nd <= 0 THEN round_half_up_int(num.val, nd)
    ELSE round_half_up_decimal(num, nd)

(***************************************************************************)
(* The round_half_up harness.                                              *)
(***************************************************************************)
NoResult == [exc |-> "pending", val |-> 0, scale |-> 0]

RoundIdle ==
    /\ number = [val |-> 0, scale |-> 0]
    /\ ndigits = 0
    /\ rpc = "idle"
    /\ result = NoResult

\* Integers are rounded at ndigits <= 0, decimals at ndigits > 0.
RoundArgs ==
    /\ \/ /\ number \in [val : -MaxNum..MaxNum, scale : {0}]
          /\ ndigits \in -MaxNegDigits..0
       \/ /\ number \in [val : -MaxCoeff..MaxCoeff, scale : 0..MaxScale]
          /\ ndigits \in 1..MaxPosDigits
    /\ rpc = "start"
    /\ result = NoResult

CallRoundInt ==
    /\ family = "round" /\ rpc = "start" /\ ndigits <= 0
    /\ result' = round_half_up(number, ndigits)
    /\ rpc' = "done"
    /\ UNCHANGED <<family, lateVars, kindVars, pqVars, number, ndigits, seqVars>>

CallRoundDecimal ==
    /\ family = "round" /\ rpc = "start" /\ ndigits > 0
    /\ result' = round_half_up(number, ndigits)
    /\ rpc' = "done"
    /\ UNCHANGED <<family, lateVars, kindVars, pqVars, number, ndigits, seqVars>>

NextRound == CallRoundInt \/ CallRoundDecimal

(***************************************************************************)
(* Sequences.  A str, bytes, list or tuple is [type, items]; the items of *)
(* a str or bytes are characters, the items of a list or tuple are Python *)
(* objects, themselves [type, items].  An exception raised by a call is   *)
(* the value [type |-> <its name>, items |-> <<>>].                        *)
(***************************************************************************)
Chars == {"1", "="}
IntObj == [type |-> "int", items |-> <<"1">>]
NoneObj == [type |-> "NoneType", items |-> <<>>]
TwoCharStr == [type |-> "str", items |-> <<"=", "=">>]
ListItems == {IntObj, NoneObj}
no_value == [type |-> "no_value", items |-> <<>>]

SeqsUpTo(S, n) == UNION {[1..k -> S] : k \in 0..n}

IsText(s) == s.type \in {"str", "bytes"}
IsSeq(s) == s.type \in {"str", "bytes", "list", "tuple"}
Exc(e) == [type |-> e, items |-> <<>>]
IsExc(s) == s.type \in {"ValueError", "TypeError"}

\* A slice bound: None or an int.
None == [none |-> TRUE, k |-> 0]
Idx(k) == [none |-> FALSE, k |-> k]

\* s[a:b]: a negative bound counts from the end, and bounds are clipped.
PySlice(s, a, b) ==
    LET n == Len(s)
        clip(x, dflt) == IF x.none THEN dflt
                         ELSE IF x.k < 0 THEN (IF x.k + n < 0 THEN 0 ELSE x.k + n)
                         ELSE IF x.k > n THEN n ELSE x.k
    IN  SubSeq(s, clip(a, 0) + 1, clip(b, n))

\* filler * num for a str or bytes.
RECURSIVE Repeat(_, _)
Repeat(s, num) == IF num <= 0 THEN <<>> ELSE s \o Repeat(s, num - 1)

(***************************************************************************)
(* fill_seq                                                                *)
(***************************************************************************)
\* Variants of fill_seq, each with one slip: num is the remainder itself;
\* no early return for a length that already divides; the fillers go in
\* front of seq.
fill_seq_wrong_num(s, n, f) ==
    IF IsText(s) /\ ~IsSeq(f) THEN Exc("TypeError")
    ELSE IF IsText(s) /\ Len(f.items) # 1 THEN Exc("ValueError")
    ELSE IF Len(s.items) % n = 0 THEN s
    ELSE LET num == Len(s.items) % n
         IN  IF IsText(s)
             THEN IF f.type # s.type THEN Exc("TypeError")
                  ELSE [type |-> s.type, items |-> s.items \o Repeat(f.items, num)]
             ELSE [type |-> s.type, items |-> s.items \o [i \in 1..num |-> f]]

fill_seq_always_pad(s, n, f) ==
    IF IsText(s) /\ ~IsSeq(f) THEN Exc("TypeError")
    ELSE IF IsText(s) /\ Len(f.items) # 1 THEN Exc("ValueError")
    ELSE LET num == n - (Len(s.items) % n)
         IN  IF IsText(s)
             THEN IF f.type # s.type THEN Exc("TypeError")
                  ELSE [type |-> s.type, items |-> s.items \o Repeat(f.items, num)]
             ELSE [type |-> s.type, items |-> s.items \o [i \in 1..num |-> f]]

fill_seq_prepend(s, n, f) ==
    IF IsText(s) /\ ~IsSeq(f) THEN Exc("TypeError")
    ELSE IF IsText(s) /\ Len(f.items) # 1 THEN Exc("ValueError")
    ELSE IF Len(s.items) % n = 0 THEN s
    ELSE LET num == n - (Len(s.items) % n)
         IN  IF IsText(s)
             THEN IF f.type # s.type THEN Exc("TypeError")
                  ELSE [type |-> s.type, items |-> Repeat(f.items, num) \o s.items]
             ELSE [type |-> s.type, items |-> [i \in 1..num |-> f] \o s.items]

\* A variant of fill_seq that looks at the filler only when it pads.
fill_seq_late_check(s, n, f) ==
    IF Len(s.items) % n = 0 THEN s
    ELSE IF IsText(s) /\ ~IsSeq(f) THEN Exc("TypeError")
    ELSE IF IsText(s) /\ Len(f.items) # 1 THEN Exc("ValueError")
    ELSE LET num == n - (Len(s.items) % n)
         IN  IF IsText(s)
             THEN IF f.type # s.type THEN Exc("TypeError")
                  ELSE [type |-> s.type, items |-> s.items \o Repeat(f.items, num)]
             ELSE [type |-> s.type, items |-> s.items \o [i \in 1..num |-> f]]

\* len(filler) raises TypeError for an object without a length, and
\* str + bytes (or bytes + str) raises TypeError.
fill_seq(s, n, f) ==
    IF IsText(s) /\ ~IsSeq(f) THEN Exc("TypeError")
    ELSE IF IsText(s) /\ Len(f.items) # 1 THEN Exc("ValueError")
    ELSE IF Len(s.items) % n = 0 THEN s
    ELSE LET num == n - (Len(s.items) % n)
         IN  IF IsText(s)
             THEN IF f.type # s.type THEN Exc("TypeError")
                  ELSE [type |-> s.type, items |-> s.items \o Repeat(f.items, num)]
             ELSE [type |-> s.type, items |-> s.items \o [i \in 1..num |-> f]]

(***************************************************************************)
(* strip_seq                                                               *)
(***************************************************************************)
\* Variants of strip_seq: end is remainder (the sign is lost); end is
\* -remainder even when remainder is 0.
strip_seq_keep_remainder(s, n) ==
    LET remainder == Len(s.items) % n
        end == IF remainder # 0 THEN Idx(remainder) ELSE None
    IN  [type |-> s.type, items |-> PySlice(s.items, None, end)]

strip_seq_no_none(s, n) ==
    LET remainder == Len(s.items) % n
        end == Idx(-remainder)
    IN  [type |-> s.type, items |-> PySlice(s.items, None, end)]

strip_seq(s, n) ==
    LET remainder == Len(s.items) % n
        end == IF remainder # 0 THEN Idx(-remainder) ELSE None
    IN  [type |-> s.type, items |-> PySlice(s.items, None, end)]

(***************************************************************************)
(* seq_grouper.  The call fills the sequence (when a filler is passed) and *)
(* evaluates range(0, len(seq), size); it returns a generator, modelled as *)
(* [state, seq, i, stop, out]: i is the next value of the range, out the   *)
(* chunks yielded so far.  A call that raised is the generator in state    *)
(* "raised", with the exception in seq.                                    *)
(***************************************************************************)
NoGen == [state |-> "none", seq |-> Exc("none"), i |-> 0, stop |-> 0, out |-> <<>>]

\* Variants of seq_grouper: the range stops at len(seq) - size + 1; the
\* range stops at len(seq) + 1.
seq_grouper_short_range(s, n, f) ==
    LET filled == IF f.type # "no_value" THEN fill_seq(s, n, f) ELSE s
    IN  IF IsExc(filled)
        THEN [state |-> "raised", seq |-> filled, i |-> 0, stop |-> 0, out |-> <<>>]
        ELSE [state |-> "live", seq |-> filled, i |-> 0,
              stop |-> Len(filled.items) - (n - 1), out |-> <<>>]

seq_grouper_long_range(s, n, f) ==
    LET filled == IF f.type # "no_value" THEN fill_seq(s, n, f) ELSE s
    IN  IF IsExc(filled)
        THEN [state |-> "raised", seq |-> filled, i |-> 0, stop |-> 0, out |-> <<>>]
        ELSE [state |-> "live", seq |-> filled, i |-> 0,
              stop |-> Len(filled.items) + 1, out |-> <<>>]

seq_grouper(s, n, f) ==
    LET filled == IF f.type # "no_value" THEN fill_seq(s, n, f) ELSE s
    IN  IF IsExc(filled)
        THEN [state |-> "raised", seq |-> filled, i |-> 0, stop |-> 0, out |-> <<>>]
        ELSE [state |-> "live", seq |-> filled, i |-> 0,
              stop |-> Len(filled.items), out |-> <<>>]

\* next() on the generator: the chunk seq[i: i + size] while the range
\* lasts, StopIteration after it.
gen_next(g, n) ==
    IF g.i < g.stop
    THEN [g EXCEPT !.i = g.i + n,
                   !.out = Append(g.out, [type |-> g.seq.type,
                                          items |-> PySlice(g.seq.items, Idx(g.i), Idx(g.i + n))])]
    ELSE [g EXCEPT !.state = "done"]

(***************************************************************************)
(* The sequence harness: up to MaxCalls calls of fill_seq and strip_seq,   *)
(* each on the argument seq (src 0) or on the value an earlier call        *)
(* returned (src its position); or list(seq_grouper(seq, size)) followed   *)
(* by list(seq_grouper(seq, size, filler)).                                *)
(***************************************************************************)
SeqIdle ==
    /\ seq = [type |-> "str", items |-> <<>>]
    /\ size = 1
    /\ filler = [type |-> "str", items |-> <<>>]
    /\ calls = <<>>
    /\ gen = NoGen
    /\ fgen = NoGen

SeqArgs ==
    /\ \/ \E ty \in {"str", "bytes"} :
            /\ seq \in [type : {ty}, items : SeqsUpTo(Chars, MaxLen)]
            /\ filler \in [type : {ty}, items : SeqsUpTo(Chars, 2)]
                            \cup [type : {"str", "bytes"} \ {ty}, items : [1..1 -> Chars]]
                            \cup {NoneObj}
       \/ /\ seq \in [type : {"list", "tuple"}, items : SeqsUpTo(ListItems, MaxLen)]
          /\ filler \in {IntObj, NoneObj, TwoCharStr}
    /\ size \in 1..MaxSize
    /\ calls = <<>>
    /\ gen = NoGen
    /\ fgen = NoGen

\* The value a call with source src is applied to.
ArgOf(src) == IF src = 0 THEN seq ELSE calls[src].out
Sources == {0} \cup {i \in DOMAIN calls : ~IsExc(calls[i].out)}
CanCall == family = "seq" /\ gen.state = "none" /\ Len(calls) < MaxCalls

CallFillSeq ==
    /\ CanCall
    /\ \E src \in Sources :
         calls' = Append(calls, [fn |-> "fill_seq", src |-> src, arg |-> ArgOf(src),
                                 out |-> fill_seq(ArgOf(src), size, filler)])
    /\ UNCHANGED <<family, lateVars, kindVars, pqVars, roundVars, seq, size, filler, gen, fgen>>

CallStripSeq ==
    /\ CanCall
    /\ \E src \in Sources :
         calls' = Append(calls, [fn |-> "strip_seq", src |-> src, arg |-> ArgOf(src),
                                 out |-> strip_seq(ArgOf(src), size)])
    /\ UNCHANGED <<family, lateVars, kindVars, pqVars, roundVars, seq, size, filler, gen, fgen>>

CallSeqGrouper ==
    /\ family = "seq" /\ calls = <<>> /\ gen.state = "none"
    /\ gen' = seq_grouper(seq, size, no_value)
    /\ UNCHANGED <<family, lateVars, kindVars, pqVars, roundVars, seq, size, filler, calls, fgen>>

NextChunk ==
    /\ family = "seq" /\ gen.state = "live"
    /\ gen' = gen_next(gen, size)
    /\ UNCHANGED <<family, lateVars, kindVars, pqVars, roundVars, seq, size, filler, calls, fgen>>

CallSeqGrouperFiller ==
    /\ family = "seq" /\ gen.state = "done" /\ fgen.state = "none"
    /\ fgen' = seq_grouper(seq, size, filler)
    /\ UNCHANGED <<family, lateVars, kindVars, pqVars, roundVars, seq, size, filler, calls, gen>>

NextFilledChunk ==
    /\ family = "seq" /\ fgen.state = "live"
    /\ fgen' = gen_next(fgen, size)
    /\ UNCHANGED <<family, lateVars, kindVars, pqVars, roundVars, seq, size, filler, calls, gen>>

NextSeq ==
    \/ CallFillSeq
    \/ CallStripSeq
    \/ CallSeqGrouper
    \/ NextChunk
    \/ CallSeqGrouperFiller
    \/ NextFilledChunk

(***************************************************************************)
(* KindTree.  A row of the table is [id, parent_id, const]; the name of a *)
(* row is carried into its node unchanged and is left out.  Python's None  *)
(* is the string "None", which is no id.  A dict is a function, with its   *)
(* keys in insertion order kept beside it where the code iterates it.      *)
(* A KindNode is [id, parent_id, root_id, parent_ids, child_ids]; a        *)
(* reference to the node of a tree is the node's id.                       *)
(***************************************************************************)
NoneId == "None"
Dangling == "x"
IdNames == <<"a", "b", "c", "d", "e", "f">>
ConstNames == {"A", "B"}
TableIds == {IdNames[j] : j \in 1..MaxRows}

EmptyDict == <<>>
DictSet(d, k, v) == (k :> v) @@ d

\* The tables.  Ids are opaque, so row k takes its id among the first k
\* names.  One half of the tables varies the parent links (any id of a
\* table, an id of no row, or None) without constants; the other half
\* varies the constants over chains (the parent is None or the name before
\* the row's position).
StructRows(k) ==
    [id : {IdNames[j] : j \in 1..k},
     parent_id : TableIds \cup {NoneId, Dangling},
     const : {NoneId}]

ConstRows(k) ==
    [id : {IdNames[j] : j \in 1..k},
     parent_id : {NoneId} \cup {IdNames[j] : j \in {k - 1} \ {0}},
     const : ConstNames \cup {NoneId}]

RECURSIVE StructTables(_)
StructTables(n) ==
    IF n = 0 THEN {<<>>}
    ELSE {Append(t, r) : t \in StructTables(n - 1), r \in StructRows(n)}

RECURSIVE ConstTables(_)
ConstTables(n) ==
    IF n = 0 THEN {<<>>}
    ELSE {Append(t, r) : t \in ConstTables(n - 1), r \in ConstRows(n)}

KindTables == UNION {StructTables(n) \cup ConstTables(n) : n \in 0..MaxRows}

\* The number of items a list can take before append raises MemoryError.
\* It lies above the length of every ancestor chain without a cycle.
MemCap == MaxRows + 2

\* `if id_ in data1`
NeverDuplicate(id, d1) == FALSE

IsDuplicate(id, d1) == id \in DOMAIN d1

\* childs[parent_id].add(id_), on a defaultdict(set).
DefaultGet(ch, k) == IF k \in DOMAIN ch THEN ch[k] ELSE {}

\* Variants: only the first ancestor of the walk records the child; the
\* child records the ancestor.
RecordDirectChild(ch, pids, pid, id) ==
    IF Len(pids) = 1 THEN DictSet(ch, pid, DefaultGet(ch, pid) \cup {id}) ELSE ch

RecordChildSwapped(ch, pids, pid, id) == DictSet(ch, id, DefaultGet(ch, id) \cup {pid})

\* pids is parent_ids after the append of pid.
RecordChild(ch, pids, pid, id) == DictSet(ch, pid, DefaultGet(ch, pid) \cup {id})

\* Variant: the two ends of parent_ids exchanged.
RootAndParentSwapped(pids) ==
    IF Len(pids) = 0 THEN [root_id |-> NoneId, parent_id |-> NoneId]
    ELSE [root_id |-> pids[1], parent_id |-> pids[Len(pids)]]

\* root_id = parent_ids[-1], parent_id = parent_ids[0], None for an empty list.
RootAndParent(pids) ==
    IF Len(pids) = 0 THEN [root_id |-> NoneId, parent_id |-> NoneId]
    ELSE [root_id |-> pids[Len(pids)], parent_id |-> pids[1]]

KindNode(id, d2, ch) ==
    [id |-> id, parent_id |-> d2[id].parent_id, root_id |-> d2[id].root_id,
     parent_ids |-> d2[id].parent_ids, child_ids |-> DefaultGet(ch, id)]

\* Variant: a name that is already an attribute is left alone.
SetConstKeepFirst(at, cs, id) ==
    IF id \in DOMAIN cs /\ cs[id] \notin DOMAIN at THEN DictSet(at, cs[id], id) ELSE at

\* `if id_ in consts: setattr(self, consts[id_], kind)`
SetConst(at, cs, id) ==
    IF id \in DOMAIN cs THEN DictSet(at, cs[id], id) ELSE at

\* get: self.nodes.get(kind_id); the result is <<node>>, or <<>> for None.
get(nd, id) == IF id \in DOMAIN nd THEN <<nd[id]>> ELSE <<>>

\* Variant: the nodes are taken in the order of the tree.
RECURSIVE gets_in_tree_order(_, _, _)
gets_in_tree_order(nd, ks, ids) ==
    IF ks = <<>> THEN <<>>
    ELSE (IF \E j \in DOMAIN ids : ids[j] = Head(ks) THEN <<nd[Head(ks)]>> ELSE <<>>)
         \o gets_in_tree_order(nd, Tail(ks), ids)

\* gets: [kind for id_ in kind_ids if (kind := self.nodes.get(id_)) is not None]
\* ks, the key order of nd, plays no part.
RECURSIVE gets(_, _, _)
gets(nd, ks, ids) ==
    IF ids = <<>> THEN <<>>
    ELSE get(nd, Head(ids)) \o gets(nd, ks, Tail(ids))

(***************************************************************************)
(* KindTree.__init__, statement by statement, then get and gets on the     *)
(* constructed tree.                                                       *)
(***************************************************************************)
NoQuery == [fn |-> "none", args |-> <<>>, out |-> <<>>]
NoTreeNodes == [set |-> FALSE, map |-> EmptyDict]

KindLocalsInit ==
    /\ ki = 1
    /\ data1 = EmptyDict /\ keys1 = <<>> /\ consts = EmptyDict
    /\ data2 = EmptyDict /\ childs = EmptyDict
    /\ parent_ids = <<>> /\ parent_id = NoneId
    /\ nodes = EmptyDict /\ attrs = EmptyDict
    /\ treeNodes = NoTreeNodes
    /\ kexc = "none"
    /\ qres = NoQuery

KindIdle == values = <<>> /\ kpc = "idle" /\ KindLocalsInit

KindArgs == values \in KindTables /\ kpc = "loop1" /\ KindLocalsInit

KRaise(e) == kpc' = "raised" /\ kexc' = e

\* for id_, parent_id, name, const in values: ...
KLoop1 ==
    /\ family = "kind" /\ kpc = "loop1" /\ ki <= Len(values)
    /\ LET row == values[ki]
       IN  IF IsDuplicate(row.id, data1)
           THEN /\ KRaise("ValueError")
                /\ UNCHANGED <<ki, data1, keys1, consts>>
           ELSE /\ data1' = DictSet(data1, row.id, row.parent_id)
                /\ keys1' = IF row.id \in DOMAIN data1 THEN keys1 ELSE Append(keys1, row.id)
                /\ consts' = IF row.const # NoneId THEN DictSet(consts, row.id, row.const)
                             ELSE consts
                /\ ki' = ki + 1
                /\ UNCHANGED <<kpc, kexc>>
    /\ UNCHANGED <<family, lateVars, roundVars, seqVars, pqVars, values, data2, childs,
                   parent_ids, parent_id, nodes, attrs, treeNodes, qres>>

KLoop1Done ==
    /\ family = "kind" /\ kpc = "loop1" /\ ki > Len(values)
    /\ kpc' = "loop2" /\ ki' = 1
    /\ UNCHANGED <<family, lateVars, roundVars, seqVars, pqVars, values, data1, keys1, consts,
                   data2, childs, parent_ids, parent_id, nodes, attrs, treeNodes,
                   kexc, qres>>

\* for id_, datum in data1.items(): parent_ids = []; parent_id = datum['parent_id']
KLoop2 ==
    /\ family = "kind" /\ kpc = "loop2" /\ ki <= Len(keys1)
    /\ parent_ids' = <<>>
    /\ parent_id' = data1[keys1[ki]]
    /\ kpc' = "walk"
    /\ UNCHANGED <<family, lateVars, roundVars, seqVars, pqVars, values, ki, data1, keys1,
                   consts, data2, childs, nodes, attrs, treeNodes, kexc, qres>>

KLoop2Done ==
    /\ family = "kind" /\ kpc = "loop2" /\ ki > Len(keys1)
    /\ kpc' = "loop3" /\ ki' = 1
    /\ UNCHANGED <<family, lateVars, roundVars, seqVars, pqVars, values, data1, keys1, consts,
                   data2, childs, parent_ids, parent_id, nodes, attrs, treeNodes,
                   kexc, qres>>

\* One turn of `while parent_id is not None`: the append, the child record,
\* the lookup of the next parent (KeyError for an id of no row).
KWalk ==
    /\ family = "kind" /\ kpc = "walk" /\ parent_id # NoneId
    /\ IF Len(parent_ids) >= MemCap
       THEN /\ KRaise("MemoryError")
            /\ UNCHANGED <<parent_ids, childs, parent_id>>
       ELSE /\ parent_ids' = Append(parent_ids, parent_id)
            /\ childs' = RecordChild(childs, parent_ids', parent_id, keys1[ki])
            /\ IF parent_id \in DOMAIN data1
               THEN parent_id' = data1[parent_id] /\ UNCHANGED <<kpc, kexc>>
               ELSE KRaise("KeyError") /\ UNCHANGED parent_id
    /\ UNCHANGED <<family, lateVars, roundVars, seqVars, pqVars, values, ki, data1, keys1,
                   consts, data2, nodes, attrs, treeNodes, qres>>

\* The walk is over: root_id, parent_id and the entry of data2.
KWalkDone ==
    /\ family = "kind" /\ kpc = "walk" /\ parent_id = NoneId
    /\ LET rp == RootAndParent(parent_ids)
       IN  data2' = DictSet(data2, keys1[ki],
                            [parent_id |-> rp.parent_id, root_id |-> rp.root_id,
                             parent_ids |-> parent_ids])
    /\ ki' = ki + 1
    /\ kpc' = "loop2"
    /\ UNCHANGED <<family, lateVars, roundVars, seqVars, pqVars, values, data1, keys1, consts,
                   childs, parent_ids, parent_id, nodes, attrs, treeNodes, kexc, qres>>

\* for id_, datum in data2.items(): the node, and its constant.
KLoop3 ==
    /\ family = "kind" /\ kpc = "loop3" /\ ki <= Len(keys1)
    /\ nodes' = DictSet(nodes, keys1[ki], KindNode(keys1[ki], data2, childs))
    /\ attrs' = SetConst(attrs, consts, keys1[ki])
    /\ ki' = ki + 1
    /\ UNCHANGED <<family, lateVars, roundVars, seqVars, pqVars, values, kpc, data1, keys1,
                   consts, data2, childs, parent_ids, parent_id, treeNodes, kexc, qres>>

\* self.nodes = nodes, and __init__ returns.
KAssignNodes ==
    /\ family = "kind" /\ kpc = "loop3" /\ ki > Len(keys1)
    /\ treeNodes' = [set |-> TRUE, map |-> nodes]
    /\ kpc' = "done"
    /\ UNCHANGED <<family, lateVars, roundVars, seqVars, pqVars, values, ki, data1, keys1,
                   consts, data2, childs, parent_ids, parent_id, nodes, attrs, kexc, qres>>

QueryIds == TableIds \cup {Dangling}

CallGet ==
    /\ family = "kind" /\ kpc = "done"
    /\ \E id \in QueryIds :
         qres' = [fn |-> "get", args |-> <<id>>, out |-> get(treeNodes.map, id)]
    /\ UNCHANGED <<family, lateVars, roundVars, seqVars, pqVars, values, kpc, ki, data1, keys1,
                   consts, data2, childs, parent_ids, parent_id, nodes, attrs,
                   treeNodes, kexc>>

CallGets ==
    /\ family = "kind" /\ kpc = "done"
    /\ \E ids \in SeqsUpTo(QueryIds, MaxGets) :
         qres' = [fn |-> "gets", args |-> ids, out |-> gets(treeNodes.map, keys1, ids)]
    /\ UNCHANGED <<family, lateVars, roundVars, seqVars, pqVars, values, kpc, ki, data1, keys1,
                   consts, data2, childs, parent_ids, parent_id, nodes, attrs,
                   treeNodes, kexc>>

NextKind ==
    \/ KLoop1
    \/ KLoop1Done
    \/ KLoop2
    \/ KLoop2Done
    \/ KWalk
    \/ KWalkDone
    \/ KLoop3
    \/ KAssignNodes
    \/ CallGet
    \/ CallGets

PqIdle ==
    /\ asc = TRUE /\ _heap = <<>> /\ _index = 0
    /\ pqres = [fn |-> "idle", exc |-> "none", item |-> 0]
    /\ putlog = <<>> /\ getlog = <<>>

(***************************************************************************)
(* PrioQueue.  self._heap is a Python list used by heapq as a binary heap  *)
(* of tuples (priority, index, item); positions are counted from 0 as in   *)
(* Python.  An item is an object without ordering, known by the serial     *)
(* number of the put that queued it.                                       *)
(***************************************************************************)
At(h, pos) == h[pos + 1]
SetAt(h, pos, v) == [h EXCEPT ![pos + 1] = v]

\* a < b on tuples (priority, index, item): the first differing element
\* decides, and two items cannot be compared (TypeError).
TupleLt(a, b) ==
    IF a[1] # b[1] THEN (IF a[1] < b[1] THEN "lt" ELSE "ge")
    ELSE IF a[2] # b[2] THEN (IF a[2] < b[2] THEN "lt" ELSE "ge")
    ELSE "err"

\* heapq._siftdown: the while loop, newitem = heap[pos] taken before it.
RECURSIVE _siftdown_loop(_, _, _, _)
_siftdown_loop(h, startpos, pos, newitem) ==
    IF pos > startpos
    THEN LET parentpos == (pos - 1) \div 2
             parent == At(h, parentpos)
             c == TupleLt(newitem, parent)
         IN  IF c = "err" THEN [h |-> h, err |-> TRUE]
             ELSE IF c = "lt"
                  THEN _siftdown_loop(SetAt(h, pos, parent), startpos, parentpos, newitem)
                  ELSE [h |-> SetAt(h, pos, newitem), err |-> FALSE]
    ELSE [h |-> SetAt(h, pos, newitem), err |-> FALSE]

_siftdown(h, startpos, pos) == _siftdown_loop(h, startpos, pos, At(h, pos))

\* heapq._siftup: bubble the smaller child up until a leaf, then sift the
\* new item down from there.
RECURSIVE _siftup_loop(_, _, _, _, _)
_siftup_loop(h, startpos, pos, childpos, newitem) ==
    LET endpos == Len(h)
    IN  IF childpos < endpos
        THEN LET rightpos == childpos + 1
                 c == IF rightpos < endpos
                      THEN TupleLt(At(h, childpos), At(h, rightpos))
                      ELSE "lt"
                 smaller == IF c = "ge" THEN rightpos ELSE childpos
             IN  IF c = "err" THEN [h |-> h, err |-> TRUE]
                 ELSE _siftup_loop(SetAt(h, pos, At(h, smaller)), startpos,
                                   smaller, 2 * smaller + 1, newitem)
        ELSE _siftdown(SetAt(h, pos, newitem), startpos, pos)

_siftup(h, pos) == _siftup_loop(h, pos, pos, 2 * pos + 1, At(h, pos))

\* heapq.heappush(heap, item)
heappush(h, entry) == _siftdown(Append(h, entry), 0, Len(h))

\* heapq.heappop(heap); exc is IndexError on an empty list.
heappop(h) ==
    IF h = <<>> THEN [h |-> h, exc |-> "IndexError", ret |-> <<>>]
    ELSE LET lastelt == h[Len(h)]
             rest == SubSeq(h, 1, Len(h) - 1)
         IN  IF rest # <<>>
             THEN LET r == _siftup(SetAt(rest, 0, lastelt), 0)
                  IN  [h |-> r.h,
                       exc |-> IF r.err THEN "TypeError" ELSE "none",
                       ret |-> rest[1]]
             ELSE [h |-> rest, exc |-> "none", ret |-> lastelt]

\* A put that stores the priority as given in both modes.
EntryNotNegated(asc_, priority, index, item) == <<priority, index, item>>

\* priority = priority if self._asc else -priority; (priority, self._index, item)
Entry(asc_, priority, index, item) ==
    <<IF asc_ THEN priority ELSE -priority, index, item>>

\* A put that leaves the index as it is.
SameIndex(index) == index

\* self._index += 1
NextIndex(index) == index + 1

\* PrioQueue.put on the object q = [asc, heap, index]
PrioQueue_put(q, priority, item) ==
    LET r == heappush(q.heap, Entry(q.asc, priority, q.index, item))
    IN  IF r.err
        THEN [asc |-> q.asc, heap |-> r.h, index |-> q.index, exc |-> "TypeError"]
        ELSE [asc |-> q.asc, heap |-> r.h, index |-> NextIndex(q.index), exc |-> "none"]

\* PrioQueue.get: heappop(self._heap)[-1]
PrioQueue_get(q) ==
    LET r == heappop(q.heap)
    IN  [asc |-> q.asc, heap |-> r.h, index |-> q.index, exc |-> r.exc,
         item |-> IF r.exc = "none" THEN r.ret[3] ELSE 0]

\* PrioQueue.from_pairs: q = cls(asc), then q.put for each pair in turn;
\* the k-th pair carries item k.
RECURSIVE from_pairs_loop(_, _, _)
from_pairs_loop(q, pairs, k) ==
    IF k > Len(pairs) \/ q.exc # "none" THEN q
    ELSE from_pairs_loop(PrioQueue_put(q, pairs[k], k), pairs, k + 1)

PrioQueue_from_pairs(pairs, asc_) ==
    from_pairs_loop([asc |-> asc_, heap |-> <<>>, index |-> 0, exc |-> "none"], pairs, 1)

Priorities == (-MaxPrio)..MaxPrio

Self == [asc |-> asc, heap |-> _heap, index |-> _index]

PqArgs ==
    /\ asc \in BOOLEAN /\ _heap = <<>> /\ _index = 0
    /\ pqres = [fn |-> "new", exc |-> "none", item |-> 0]
    /\ putlog = <<>> /\ getlog = <<>>

\* pq = PrioQueue.from_pairs(pairs, asc)
PqFromPairs ==
    /\ family = "pq" /\ pqres.fn = "new"
    /\ \E pairs \in SeqsUpTo(Priorities, MaxPairs) \ {<<>>} :
         LET q == PrioQueue_from_pairs(pairs, asc)
         IN  /\ _heap' = q.heap
             /\ _index' = q.index
             /\ pqres' = [fn |-> "from_pairs", exc |-> q.exc, item |-> 0]
             /\ putlog' = SubSeq(pairs, 1, IF q.exc = "none" THEN Len(pairs)
                                           ELSE Len(q.heap) - 1)
    /\ UNCHANGED <<family, lateVars, roundVars, seqVars, kindVars, asc, getlog>>

\* pq.put(priority, item) with a new item
PqPut ==
    /\ family = "pq" /\ Len(putlog) < MaxPuts
    /\ \E priority \in Priorities :
         LET q == PrioQueue_put(Self, priority, Len(putlog) + 1)
         IN  /\ _heap' = q.heap
             /\ _index' = q.index
             /\ pqres' = [fn |-> "put", exc |-> q.exc, item |-> 0]
             /\ putlog' = IF q.exc = "none" THEN Append(putlog, priority) ELSE putlog
    /\ UNCHANGED <<family, lateVars, roundVars, seqVars, kindVars, asc, getlog>>

\* pq.get()
PqGet ==
    /\ family = "pq"
    /\ LET q == PrioQueue_get(Self)
       IN  /\ _heap' = q.heap
           /\ pqres' = [fn |-> "get", exc |-> q.exc, item |-> q.item]
           /\ getlog' = IF q.exc = "none"
                        THEN Append(getlog, [item |-> q.item, nputs |-> Len(putlog)])
                        ELSE getlog
    /\ UNCHANGED <<family, lateVars, roundVars, seqVars, kindVars, asc, _index, putlog>>

NextPq ==
    \/ PqFromPairs
    \/ PqPut
    \/ PqGet

InitPq == family = "pq" /\ RoundIdle /\ SeqIdle /\ KindIdle /\ PqArgs /\ LateIdle

SpecPq == InitPq /\ [][NextPq]_vars

EarlyIdle == RoundIdle /\ SeqIdle /\ KindIdle /\ PqIdle

(***************************************************************************)
(* DictSerializer (src/util/demo.py).  A str is a sequence of characters;  *)
(* a value is [type, items]: a str value holds the one str, a list value   *)
(* its items.  A dict passed to encode is the sequence of its items in     *)
(* insertion order; a dict returned by decode is a function.               *)
(***************************************************************************)
\* str.replace(old, new) for a non-empty old: left to right, not overlapping
RECURSIVE str_replace(_, _, _)
str_replace(s, old, new) ==
    IF Len(s) < Len(old) THEN s
    ELSE IF SubSeq(s, 1, Len(old)) = old
         THEN new \o str_replace(SubSeq(s, Len(old) + 1, Len(s)), old, new)
         ELSE <<s[1]>> \o str_replace(Tail(s), old, new)

\* str.split(sep) for a one-character sep
RECURSIVE str_split(_, _)
str_split(s, sep) ==
    IF \E i \in DOMAIN s : s[i] = sep
    THEN LET i == CHOOSE i \in DOMAIN s : s[i] = sep /\ \A j \in 1..(i - 1) : s[j] # sep
         IN  <<SubSeq(s, 1, i - 1)>> \o str_split(SubSeq(s, i + 1, Len(s)), sep)
    ELSE <<s>>

\* sep.join(parts)
RECURSIVE str_join(_, _)
str_join(sep, parts) ==
    IF parts = <<>> THEN <<>>
    ELSE IF Len(parts) = 1 THEN parts[1]
    ELSE parts[1] \o <<sep>> \o str_join(sep, Tail(parts))

_encode_s(s) ==
    str_replace(str_replace(str_replace(s, <<"$">>, <<"$", "$">>),
                            <<":">>, <<"$", ",">>),
                <<"|">>, <<"$", ";">>)

_decode_s(s) ==
    str_replace(str_replace(str_replace(s, <<"$", ";">>, <<"|">>),
                            <<"$", ",">>, <<":">>),
                <<"$", "$">>, <<"$">>)

StrValue(s) == [type |-> "str", items |-> <<s>>]
ListValue(l) == [type |-> "list", items |-> l]

\* the segment encode appends for one item
encode_seg(k, v) ==
    IF v.type = "str"
    THEN str_join(":", <<_encode_s(k), _encode_s(v.items[1])>>)
    ELSE str_join(":", [j \in 1..(Len(v.items) + 1) |->
                            _encode_s((<<k>> \o v.items)[j])])

encode(data) ==
    IF data = <<>> THEN <<>>
    ELSE str_join("|", [j \in DOMAIN data |-> encode_seg(data[j].k, data[j].v)])

\* the for loop of decode over segs, from position i on
RECURSIVE decode_loop(_, _, _)
decode_loop(segs, i, data) ==
    IF i > Len(segs) THEN data
    ELSE LET kv == str_split(segs[i], ":")
         IN  IF Len(kv) < 2 THEN decode_loop(segs, i + 1, data)
             ELSE IF Len(kv) = 2
                  THEN decode_loop(segs, i + 1,
                                   DictSet(data, _decode_s(kv[1]), StrValue(_decode_s(kv[2]))))
                  ELSE decode_loop(segs, i + 1,
                                   DictSet(data, _decode_s(kv[1]),
                                           ListValue([j \in 1..(Len(kv) - 1) |->
                                                          _decode_s(kv[j + 1])])))

decode(s) ==
    IF s = <<>> THEN EmptyDict
    ELSE decode_loop(str_split(s, "|"), 1, EmptyDict)

SerChars == {"a", ":", "|", "$", ";", ","}
SerStrs(n) == SeqsUpTo(SerChars, n)

\* The dicts of the harness: one item with a str value (a long key or a
\* long value), one item with a list value, two items, and the empty dict.
SerDicts ==
    {<<>>}
    \cup {<<[k |-> k, v |-> StrValue(v)]>> : k \in SerStrs(MaxSerLen), v \in SerStrs(1)}
    \cup {<<[k |-> k, v |-> StrValue(v)]>> : k \in SerStrs(1), v \in SerStrs(MaxSerLen)}
    \cup {<<[k |-> k, v |-> ListValue(l)]>> :
              k \in SerStrs(1), l \in SeqsUpTo(SerStrs(1), MaxSerList)}
    \cup {<<[k |-> kk[1], v |-> StrValue(vv[1])], [k |-> kk[2], v |-> StrValue(vv[2])]>> :
              kk \in {x \in SerStrs(1) \X SerStrs(1) : x[1] # x[2]},
              vv \in SerStrs(1) \X SerStrs(1)}

SerArgs ==
    /\ sdata \in SerDicts /\ spc = "start"
    /\ senc = [set |-> FALSE, s |-> <<>>]
    /\ sdec = [set |-> FALSE, d |-> <<>>]

\* s = DictSerializer.encode(data)
CallEncode ==
    /\ family = "ser" /\ spc = "start"
    /\ senc' = [set |-> TRUE, s |-> encode(sdata)]
    /\ spc' = "encoded"
    /\ UNCHANGED <<family, earlyVars, sdata, sdec>>
    /\ LateFrame("ser")

\* DictSerializer.decode(s)
CallDecode ==
    /\ family = "ser" /\ spc = "encoded"
    /\ sdec' = [set |-> TRUE, d |-> decode(senc.s)]
    /\ spc' = "decoded"
    /\ UNCHANGED <<family, earlyVars, sdata, senc>>
    /\ LateFrame("ser")

NextSer ==
    \/ CallEncode
    \/ CallDecode

InitSer == family = "ser" /\ EarlyIdle /\ LateIdleExcept("ser") /\ SerArgs

SpecSer == InitSer /\ [][NextSer]_vars

(***************************************************************************)
(* CaseInsensitiveDict, the class of src/util/demo.py and the earlier one  *)
(* of src/util.py, both on collections.UserDict.  A key is [type, s]; the  *)
(* keys of self.data are the character sequences stored.                   *)
(***************************************************************************)
StrKey(s) == [type |-> "str", s |-> s]
NoneKey == [type |-> "NoneType", s |-> <<>>]

\* str.lower() on the letters of the harness
LowerChar(c) == IF c = "C" THEN "c" ELSE IF c = "D" THEN "d" ELSE c
lower(s) == [j \in DOMAIN s |-> LowerChar(s[j])]

\* __contains__: demo.py tests isinstance(key, str) first, util.py calls
\* key.lower() at once (None has no lower: AttributeError).
contains(cls, d, key) ==
    IF key.type = "str" THEN [exc |-> "none", out |-> lower(key.s) \in DOMAIN d]
    ELSE IF cls = "demo" THEN [exc |-> "none", out |-> FALSE]
    ELSE [exc |-> "AttributeError", out |-> FALSE]

\* __getitem__: UserDict.__getitem__(key.lower())
getitem(d, key) ==
    IF lower(key.s) \in DOMAIN d THEN [exc |-> "none", out |-> d[lower(key.s)]]
    ELSE [exc |-> "KeyError", out |-> 0]

\* __setitem__: UserDict.__setitem__(key.lower(), value)
setitem(d, key, value) == DictSet(d, lower(key.s), value)

\* __delitem__: UserDict.__delitem__(key.lower())
delitem(d, key) ==
    IF lower(key.s) \in DOMAIN d
    THEN [exc |-> "none", d |-> [k \in DOMAIN d \ {lower(key.s)} |-> d[k]]]
    ELSE [exc |-> "KeyError", d |-> d]

\* Mapping.get(key, default): self[key], default on KeyError; None is 0 here
NoneValue == 0
dict_get(d, key) ==
    IF getitem(d, key).exc = "none" THEN getitem(d, key).out ELSE NoneValue

CidKeys == {StrKey(<<"c">>), StrKey(<<"C">>), StrKey(<<"d">>), StrKey(<<"D">>),
            StrKey(<<"C", "d">>), StrKey(<<"c", "D">>), StrKey(<<"c", "-">>)}
CidValues == {1, 2}

CidArgs == ccls \in {"demo", "util"} /\ cdata = EmptyDict /\ cres = NoCall

CidCall(op, key, val, exc, out) ==
    cres' = [op |-> op, key |-> key, val |-> val, before |-> cdata,
             exc |-> exc, out |-> out]

\* d[key] = value
CidSetItem ==
    /\ family = "cid"
    /\ \E key \in CidKeys, value \in CidValues :
         /\ cdata' = setitem(cdata, key, value)
         /\ CidCall("setitem", key, value, "none", 0)
    /\ UNCHANGED <<family, earlyVars, ccls>>
    /\ LateFrame("cid")

\* del d[key]
CidDelItem ==
    /\ family = "cid"
    /\ \E key \in CidKeys :
         /\ cdata' = delitem(cdata, key).d
         /\ CidCall("delitem", key, 0, delitem(cdata, key).exc, 0)
    /\ UNCHANGED <<family, earlyVars, ccls>>
    /\ LateFrame("cid")

\* d[key]
CidGetItem ==
    /\ family = "cid"
    /\ \E key \in CidKeys :
         CidCall("getitem", key, 0, getitem(cdata, key).exc, getitem(cdata, key).out)
    /\ UNCHANGED <<family, earlyVars, ccls, cdata>>
    /\ LateFrame("cid")

\* d.get(key)
CidGet ==
    /\ family = "cid"
    /\ \E key \in CidKeys : CidCall("get", key, 0, "none", dict_get(cdata, key))
    /\ UNCHANGED <<family, earlyVars, ccls, cdata>>
    /\ LateFrame("cid")

\* key in d
CidContains ==
    /\ family = "cid"
    /\ \E key \in CidKeys \cup {NoneKey} :
         CidCall("contains", key, 0, contains(ccls, cdata, key).exc,
                 contains(ccls, cdata, key).out)
    /\ UNCHANGED <<family, earlyVars, ccls, cdata>>
    /\ LateFrame("cid")

\* len(d)
CidLen ==
    /\ family = "cid"
    /\ CidCall("len", NoneKey, 0, "none", Cardinality(DOMAIN cdata))
    /\ UNCHANGED <<family, earlyVars, ccls, cdata>>
    /\ LateFrame("cid")

NextCid ==
    \/ CidSetItem
    \/ CidDelItem
    \/ CidGetItem
    \/ CidGet
    \/ CidContains
    \/ CidLen

InitCid == family = "cid" /\ EarlyIdle /\ LateIdleExcept("cid") /\ CidArgs

SpecCid == InitCid /\ [][NextCid]_vars

(***************************************************************************)
(* Version (src/util/normal.py), ordered by functools.total_ordering from  *)
(* __eq__ and __gt__.                                                      *)
(***************************************************************************)
\* int(s) for a str of decimal digits; ValueError for '' or another character
RECURSIVE int_of_digits(_)
int_of_digits(s) ==
    IF s = <<>> THEN 0
    ELSE 10 * int_of_digits(SubSeq(s, 1, Len(s) - 1)) + PyInt(s[Len(s)]).val

int_of_str(s) ==
    IF s = <<>> \/ \E j \in DOMAIN s : PyInt(s[j]).exc # "none" THEN Raise("ValueError")
    ELSE Ok(int_of_digits(s))

NoVersion == [none |-> TRUE, major |-> 0, minor |-> 0, revision |-> 0]

\* Version(major, minor, revision)
Version(major, minor, revision) ==
    [none |-> FALSE, major |-> major, minor |-> minor, revision |-> revision]

\* Version.parse for a str of dot-separated digit strings, at most three
Version_parse(version_str) ==
    IF version_str = <<>> THEN NoVersion
    ELSE LET parts == str_split(version_str, ".")
             group == [type |-> "list",
                       items |-> [j \in DOMAIN parts |-> int_of_str(parts[j]).val]]
             filled == fill_seq(group, 3, 0).items
         IN  Version(filled[1], filled[2], filled[3])

\* a or b for two ints: a when it is not 0, else b
IntOr(a, b) == IF a # 0 THEN a ELSE b

Version_eq(x, y) ==
    x.major = y.major /\ x.minor = y.minor /\ x.revision = y.revision

\* A __gt__ that compares the revision before the minor number.
Version_gt_revision_first(x, y) ==
    IntOr(IntOr(x.major - y.major, x.revision - y.revision), x.minor - y.minor) > 0

Version_gt(x, y) ==
    IntOr(IntOr(x.major - y.major, x.minor - y.minor), x.revision - y.revision) > 0

\* functools._lt_from_gt, _le_from_gt, _ge_from_gt
Version_lt(x, y) == ~Version_gt(x, y) /\ ~Version_eq(x, y)
Version_le(x, y) == ~Version_gt(x, y)
Version_ge(x, y) == Version_gt(x, y) \/ Version_eq(x, y)

VerNumbers == (0..MaxVer) \cup {10}
VerStr(ns) == str_join(".", [j \in DOMAIN ns |-> PyStr(ns[j])])

VerArgs ==
    /\ vin \in SeqsUpTo(VerNumbers, 3) \X SeqsUpTo(VerNumbers, 3)
    /\ vstr = <<VerStr(vin[1]), VerStr(vin[2])>>
    /\ vobj = <<>> /\ vcmp = NoCompare

\* Version.parse(version_str) for the next of the two strings
CallParse ==
    /\ family = "ver" /\ Len(vobj) < 2
    /\ vobj' = Append(vobj, Version_parse(vstr[Len(vobj) + 1]))
    /\ UNCHANGED <<family, earlyVars, vin, vstr, vcmp>>
    /\ LateFrame("ver")

\* the five comparisons of the two parsed versions
CallCompare ==
    /\ family = "ver" /\ Len(vobj) = 2 /\ ~vcmp.set
    /\ ~vobj[1].none /\ ~vobj[2].none
    /\ vcmp' = [set |-> TRUE,
                eq |-> Version_eq(vobj[1], vobj[2]),
                lt |-> Version_lt(vobj[1], vobj[2]),
                le |-> Version_le(vobj[1], vobj[2]),
                gt |-> Version_gt(vobj[1], vobj[2]),
                ge |-> Version_ge(vobj[1], vobj[2])]
    /\ UNCHANGED <<family, earlyVars, vin, vstr, vobj>>
    /\ LateFrame("ver")

NextVer ==
    \/ CallParse
    \/ CallCompare

InitVer == family = "ver" /\ EarlyIdle /\ LateIdleExcept("ver") /\ VerArgs

SpecVer == InitVer /\ [][NextVer]_vars

(***************************************************************************)
(* BitField (src/util/normal.py).  Python ints are unbounded and negative  *)
(* ones behave as two's complement with endless sign bits.                 *)
(***************************************************************************)
\* a & b
RECURSIVE BitAnd(_, _)
BitAnd(a, b) ==
    IF a = 0 \/ b = 0 THEN 0
    ELSE IF a = -1 THEN b
    ELSE IF b = -1 THEN a
    ELSE (a % 2) * (b % 2) + 2 * BitAnd(a \div 2, b \div 2)

\* a | b
RECURSIVE BitOr(_, _)
BitOr(a, b) ==
    IF a = 0 THEN b
    ELSE IF b = 0 THEN a
    ELSE IF a = -1 \/ b = -1 THEN -1
    ELSE (IF a % 2 = 1 \/ b % 2 = 1 THEN 1 ELSE 0) + 2 * BitOr(a \div 2, b \div 2)

\* ~a
BitNot(a) == -a - 1

\* 1 << k
RECURSIVE Shl1(_)
Shl1(k) == IF k = 0 THEN 1 ELSE 2 * Shl1(k - 1)

\* An add that sums instead of or-ing.
add_by_sum(ids, value) == ids + value

\* BitField.add: self.ids |= value
add(ids, value) == BitOr(ids, value)

\* BitField.remove: self.ids &= ~value
remove(ids, value) == BitAnd(ids, BitNot(value))

\* BitField.has: bool(self.ids & value)
has(ids, value) == BitAnd(ids, value) # 0

\* BitField.create: reduce(operator.or_, ids) over a non-empty sequence
RECURSIVE reduce_or(_)
reduce_or(ids) ==
    IF Len(ids) = 1 THEN ids[1]
    ELSE BitOr(reduce_or(SubSeq(ids, 1, Len(ids) - 1)), ids[Len(ids)])

Flags == {Shl1(k) : k \in 0..(MaxBits - 1)}

BitArgs == bpc = "new" /\ bids = 0 /\ bhist = {} /\ bres = NoCall

\* bit_field = BitField.create(ids)
BfCreate ==
    /\ family = "bit" /\ bpc = "new"
    /\ \E ids \in SeqsUpTo(Flags, 3) \ {<<>>} :
         /\ bids' = reduce_or(ids)
         /\ bhist' = {ids[j] : j \in DOMAIN ids}
    /\ bpc' = "made"
    /\ UNCHANGED <<family, earlyVars, bres>>
    /\ LateFrame("bit")

\* bit_field.add(value)
BfAdd ==
    /\ family = "bit" /\ bpc = "made"
    /\ \E value \in Flags :
         /\ bids' = add(bids, value)
         /\ bhist' = bhist \cup {value}
         /\ bres' = [op |-> "add", value |-> value, before |-> bids, out |-> FALSE]
    /\ UNCHANGED <<family, earlyVars, bpc>>
    /\ LateFrame("bit")

\* bit_field.remove(value)
BfRemove ==
    /\ family = "bit" /\ bpc = "made"
    /\ \E value \in Flags :
         /\ bids' = remove(bids, value)
         /\ bhist' = bhist \ {value}
         /\ bres' = [op |-> "remove", value |-> value, before |-> bids, out |-> FALSE]
    /\ UNCHANGED <<family, earlyVars, bpc>>
    /\ LateFrame("bit")

\* bit_field.has(value)
BfHas ==
    /\ family = "bit" /\ bpc = "made"
    /\ \E value \in Flags :
         bres' = [op |-> "has", value |-> value, before |-> bids, out |-> has(bids, value)]
    /\ UNCHANGED <<family, earlyVars, bpc, bids, bhist>>
    /\ LateFrame("bit")

NextBit ==
    \/ BfCreate
    \/ BfAdd
    \/ BfRemove
    \/ BfHas

InitBit == family = "bit" /\ EarlyIdle /\ LateIdleExcept("bit") /\ BitArgs

SpecBit == InitBit /\ [][NextBit]_vars

(***************************************************************************)
(* merge_sorted_list (src/util/normal.py), a generator: each next() runs   *)
(* one iteration of the for loop.  A number is [inf, v]; float('inf') has  *)
(* inf set.                                                                *)
(***************************************************************************)
Finite(v) == [inf |-> FALSE, v |-> v]
Infinity == [inf |-> TRUE, v |-> 0]

\* x < y on numbers
NumLt(x, y) == ~x.inf /\ (y.inf \/ x.v < y.v)

\* min(x, y): y only when y < x
NumMin(x, y) == IF NumLt(y, x) THEN y ELSE x

\* a[idx] if idx < len(a) else float('inf')
ItemOrInf(a, idx) == IF idx < Len(a) THEN Finite(a[idx + 1]) ELSE Infinity

\* An iteration that moves on in the list with the larger value.
merge_step_larger(a1, a2, i) ==
    LET v1 == ItemOrInf(a1, i.idx1)
        v2 == ItemOrInf(a2, i.idx2)
    IN  [idx1 |-> IF NumLt(v2, v1) THEN i.idx1 + 1 ELSE i.idx1,
         idx2 |-> IF NumLt(v2, v1) THEN i.idx2 ELSE i.idx2 + 1,
         n |-> i.n + 1,
         value |-> NumMin(v1, v2)]

\* one iteration of the for loop: the new indexes and the value yielded
merge_step(a1, a2, i) ==
    LET v1 == ItemOrInf(a1, i.idx1)
        v2 == ItemOrInf(a2, i.idx2)
    IN  [idx1 |-> IF NumLt(v1, v2) THEN i.idx1 + 1 ELSE i.idx1,
         idx2 |-> IF NumLt(v1, v2) THEN i.idx2 ELSE i.idx2 + 1,
         n |-> i.n + 1,
         value |-> NumMin(v1, v2)]

IsSorted(a) == \A j \in 1..(Len(a) - 1) : a[j] <= a[j + 1]
SortedLists == {a \in SeqsUpTo(0..MaxMergeVal, MaxMergeLen) : IsSorted(a)}

MergeArgs ==
    /\ margs \in SortedLists \X SortedLists
    /\ ma1 = margs[1] /\ ma2 = margs[2]
    /\ midx = [idx1 |-> 0, idx2 |-> 0, n |-> 0] /\ mout = <<>> /\ mpc = "start"

\* g = merge_sorted_list(a1, a2): nothing runs before the first next()
CallMerge ==
    /\ family = "merge" /\ mpc = "start"
    /\ mpc' = "running"
    /\ UNCHANGED <<family, earlyVars, margs, ma1, ma2, midx, mout>>
    /\ LateFrame("merge")

\* next(g) while the for loop has iterations left
MergeNext ==
    /\ family = "merge" /\ mpc = "running" /\ midx.n < Len(ma1) + Len(ma2)
    /\ LET r == merge_step(ma1, ma2, midx)
       IN  /\ midx' = [idx1 |-> r.idx1, idx2 |-> r.idx2, n |-> r.n]
           /\ mout' = Append(mout, r.value)
    /\ UNCHANGED <<family, earlyVars, margs, ma1, ma2, mpc>>
    /\ LateFrame("merge")

\* next(g) after the last iteration: StopIteration
MergeStop ==
    /\ family = "merge" /\ mpc = "running" /\ midx.n = Len(ma1) + Len(ma2)
    /\ mpc' = "exhausted"
    /\ UNCHANGED <<family, earlyVars, margs, ma1, ma2, midx, mout>>
    /\ LateFrame("merge")

NextMerge ==
    \/ CallMerge
    \/ MergeNext
    \/ MergeStop

InitMerge == family = "merge" /\ EarlyIdle /\ LateIdleExcept("merge") /\ MergeArgs

SpecMerge == InitMerge /\ [][NextMerge]_vars

(***************************************************************************)
(* round_half_up on an integer and on its negative, for the function of    *)
(* src/util/normal.py and for the earlier one of src/util.py.              *)
(***************************************************************************)
\* util.py get_number: (number // 10 ** abs(ndigits)) % 10
get_number(n, nd) ==
    IF nd > 0 THEN Raise("ValueError")
    ELSE Ok((n \div Pow10(Abs(nd))) % 10)

\* util.py round_half_up for an int: the branch ndigits < 0, and at
\* ndigits = 0 the Decimal branch, which quantizes to Decimal('1.0').
round_half_up_util(n, nd) ==
    IF nd < 0
    THEN LET half_even_result == PyRound(n, nd)
         IN  IF /\ get_number(n, nd).val % 2 = 0
                /\ get_number(n, nd + 1).val = 5
                /\ n % Pow10(Abs(nd + 1)) = 0
             THEN Ok(half_even_result + Pow10(Abs(nd)))
             ELSE Ok(half_even_result)
    ELSE [exc |-> "none", val |-> QuantizeHalfUp(n, 0, 1), scale |-> 1]

round_half_up_of(ver, n, nd) ==
    IF ver = "normal" THEN round_half_up([val |-> n, scale |-> 0], nd)
    ELSE round_half_up_util(n, nd)

SymArgs ==
    /\ yver \in {"normal", "util"}
    /\ yn \in 0..MaxSymNum /\ ynd \in (-MaxNegDigits)..0
    /\ ypos = NotCalled /\ yneg = NotCalled

\* round_half_up(n, ndigits)
CallRoundOfN ==
    /\ family = "sym" /\ ypos = NotCalled
    /\ ypos' = round_half_up_of(yver, yn, ynd)
    /\ UNCHANGED <<family, earlyVars, yver, yn, ynd, yneg>>
    /\ LateFrame("sym")

\* round_half_up(-n, ndigits)
CallRoundOfMinusN ==
    /\ family = "sym" /\ ypos # NotCalled /\ yneg = NotCalled
    /\ yneg' = round_half_up_of(yver, -yn, ynd)
    /\ UNCHANGED <<family, earlyVars, yver, yn, ynd, ypos>>
    /\ LateFrame("sym")

NextSym ==
    \/ CallRoundOfN
    \/ CallRoundOfMinusN

InitSym == family = "sym" /\ EarlyIdle /\ LateIdleExcept("sym") /\ SymArgs

SpecSym == InitSym /\ [][NextSym]_vars

(***************************************************************************)
(* sequence_grouper (src/util.py) beside seq_grouper without filler        *)
(* (src/util/normal.py).  Both return a generator expression: the range is *)
(* fixed at the call, each next() takes one slice.                         *)
(***************************************************************************)
\* A count of chunks that rounds the quotient down.
FloorOfQuotient(a, b) == a \div b

\* math.ceil(a / b) for a >= 0 and b > 0
CeilOfQuotient(a, b) == IF a % b = 0 THEN a \div b ELSE (a \div b) + 1

\* sequence_grouper(sequence, size): the generator over range(times)
sequence_grouper(s, n) ==
    [state |-> "live", seq |-> s, i |-> 0,
     stop |-> CeilOfQuotient(Len(s.items), n), out |-> <<>>]

\* next() on it: sequence[i * size: (i + 1) * size], StopIteration after
\* the range
sequence_grouper_next(g, n) ==
    IF g.i < g.stop
    THEN [g EXCEPT !.i = g.i + 1,
                   !.out = Append(g.out, [type |-> g.seq.type,
                                          items |-> PySlice(g.seq.items, Idx(g.i * n),
                                                            Idx((g.i + 1) * n))])]
    ELSE [g EXCEPT !.state = "done"]

GrpArgs ==
    /\ gseq \in [type : {"str"}, items : SeqsUpTo(Chars, MaxLen)]
                \cup [type : {"list"}, items : SeqsUpTo(ListItems, MaxLen)]
    /\ gsize \in 1..MaxSize
    /\ gold = NotGenerated /\ gnew = NotGenerated

\* sequence_grouper(sequence, size)
CallSequenceGrouper ==
    /\ family = "grp" /\ gold.state = "none"
    /\ gold' = sequence_grouper(gseq, gsize)
    /\ UNCHANGED <<family, earlyVars, gseq, gsize, gnew>>
    /\ LateFrame("grp")

\* next() on the generator of sequence_grouper
NextOldChunk ==
    /\ family = "grp" /\ gold.state = "live"
    /\ gold' = sequence_grouper_next(gold, gsize)
    /\ UNCHANGED <<family, earlyVars, gseq, gsize, gnew>>
    /\ LateFrame("grp")

\* seq_grouper(seq, size)
CallSeqGrouperPlain ==
    /\ family = "grp" /\ gnew.state = "none"
    /\ gnew' = seq_grouper(gseq, gsize, no_value)
    /\ UNCHANGED <<family, earlyVars, gseq, gsize, gold>>
    /\ LateFrame("grp")

\* next() on the generator of seq_grouper
NextNewChunk ==
    /\ family = "grp" /\ gnew.state = "live"
    /\ gnew' = gen_next(gnew, gsize)
    /\ UNCHANGED <<family, earlyVars, gseq, gsize, gold>>
    /\ LateFrame("grp")

NextGrp ==
    \/ CallSequenceGrouper
    \/ NextOldChunk
    \/ CallSeqGrouperPlain
    \/ NextNewChunk

InitGrp == family = "grp" /\ EarlyIdle /\ LateIdleExcept("grp") /\ GrpArgs

SpecGrp == InitGrp /\ [][NextGrp]_vars

(***************************************************************************)
(* yearly_ranges (src/util_dateutil.py, the same body in src/util.py).     *)
(* A date is [year, month, day]; begin + relativedelta(years=years) keeps  *)
(* month and day, clamps the day to the target month's length, and         *)
(* date.replace raises ValueError for a year after datetime.MAXYEAR.       *)
(***************************************************************************)
MAXYEAR == 9999

isleap(y) == y % 4 = 0 /\ (y % 100 # 0 \/ y % 400 = 0)

\* calendar.monthrange(year, month)[1]
DaysInMonth(y, m) ==
    IF m = 2 THEN (IF isleap(y) THEN 29 ELSE 28)
    ELSE IF m \in {4, 6, 9, 11} THEN 30 ELSE 31

\* date.__lt__
DateLt(a, b) ==
    \/ a.year < b.year
    \/ a.year = b.year /\ a.month < b.month
    \/ a.year = b.year /\ a.month = b.month /\ a.day < b.day

DateLe(a, b) == a = b \/ DateLt(a, b)

\* begin + relativedelta(years=years) raises ValueError (year out of range)
YearOutOfRange(d, n) == d.year + n > MAXYEAR

\* begin + relativedelta(years=years)
AddYears(d, n) ==
    [year |-> d.year + n, month |-> d.month,
     day |-> IF d.day < DaysInMonth(d.year + n, d.month)
             THEN d.day ELSE DaysInMonth(d.year + n, d.month)]

\* for begin, end in ranges: if find_date < end: return begin, end
RECURSIVE find_loop(_, _, _)
find_loop(ranges, i, fd) ==
    IF i > Len(ranges) THEN [kind |-> "None"]
    ELSE IF DateLt(fd, ranges[i][2]) THEN [kind |-> "pair", value |-> ranges[i]]
    ELSE find_loop(ranges, i + 1, fd)

ValueError(msg) == [kind |-> "ValueError", msg |-> msg]

YrDates ==
    {[year |-> y, month |-> md[1], day |-> md[2]] :
        y \in (MAXYEAR - MaxSpan)..MAXYEAR,
        md \in {<<1, 1>>, <<2, 28>>, <<2, 29>>, <<3, 1>>}}

YrArgs ==
    /\ yrargs \in [begin : {d \in YrDates : d.day <= DaysInMonth(d.year, d.month)},
                  end : {d \in YrDates : d.day <= DaysInMonth(d.year, d.month)},
                  years : (-1)..MaxYears,
                  find_date : {d \in YrDates : d.day <= DaysInMonth(d.year, d.month)}
                              \cup {NoDate}]
    /\ yrbegin = yrargs.begin
    /\ yrranges = <<>> /\ yrpc = "call" /\ yrres = NotReturned

\* the two argument checks at the top of yearly_ranges
YrCheckArgs ==
    /\ family = "yr" /\ yrpc = "call"
    /\ IF DateLt(yrargs.end, yrbegin)
       THEN yrres' = ValueError("begin time must <= end time") /\ yrpc' = "done"
       ELSE IF yrargs.years <= 0
       THEN yrres' = ValueError("years must >= 1") /\ yrpc' = "done"
       ELSE yrres' = yrres /\ yrpc' = "loop"
    /\ UNCHANGED <<family, earlyVars, yrargs, yrbegin, yrranges>>
    /\ LateFrame("yr")

\* one pass of the while True loop
YrLoop ==
    /\ family = "yr" /\ yrpc = "loop"
    /\ IF YearOutOfRange(yrbegin, yrargs.years)
       THEN /\ yrres' = ValueError("year is out of range") /\ yrpc' = "done"
            /\ UNCHANGED <<yrbegin, yrranges>>
       ELSE LET few_years_later == AddYears(yrbegin, yrargs.years) IN
            IF DateLe(yrargs.end, few_years_later)
            THEN /\ yrranges' = Append(yrranges, <<yrbegin, yrargs.end>>)
                 /\ yrpc' = "find"
                 /\ UNCHANGED <<yrbegin, yrres>>
            ELSE /\ yrranges' = Append(yrranges, <<yrbegin, few_years_later>>)
                 /\ yrbegin' = few_years_later
                 /\ UNCHANGED <<yrpc, yrres>>
    /\ UNCHANGED <<family, earlyVars, yrargs>>
    /\ LateFrame("yr")

\* the statements after the loop
YrFind ==
    /\ family = "yr" /\ yrpc = "find"
    /\ yrres' = IF yrargs.find_date = NoDate
               THEN [kind |-> "list", value |-> yrranges]
               ELSE IF \/ DateLt(yrargs.find_date, yrranges[1][1])
                       \/ DateLe(yrranges[Len(yrranges)][2], yrargs.find_date)
               THEN [kind |-> "None"]
               ELSE find_loop(yrranges, 1, yrargs.find_date)
    /\ yrpc' = "done"
    /\ UNCHANGED <<family, earlyVars, yrargs, yrbegin, yrranges>>
    /\ LateFrame("yr")

NextYr ==
    \/ YrCheckArgs
    \/ YrLoop
    \/ YrFind

InitYr == family = "yr" /\ EarlyIdle /\ LateIdleExcept("yr") /\ YrArgs

SpecYr == InitYr /\ [][NextYr]_vars

(***************************************************************************)
(* Memoize (src/util.py): a descriptor that stores the wrapped function's  *)
(* result in the instance under 'cache_key_' + fget.__name__.  The wrapped *)
(* function of property p returns what it reads from the instance at the   *)
(* time of the call, tagged with the instance and p.                       *)
(***************************************************************************)
\* Memoize.__init__(fget)
Memoize(name) == [fget |-> name, cache_key |-> "cache_key_" \o name]

\* the class body: one Memoize per wrapped function
Descriptors == [p \in Props |-> Memoize(p)]

\* a lookup that never finds the attribute
hasattr_never(d, key) == FALSE

\* hasattr(instance, key)
hasattr(d, key) == key \in DOMAIN d

\* setattr(instance, key, value)
setattr(d, key, value) == (key :> value) @@ d

\* self.fget(instance)
fget(self, i, field) == [type |-> "value", by |-> i, prop |-> self.fget, n |-> field]

\* Memoize.__get__(instance, owner) for an instance: the __dict__ afterwards
Memoize_get_dict(self, i, d, field) ==
    IF ~hasattr(d, self.cache_key)
    THEN setattr(d, self.cache_key, fget(self, i, field))
    ELSE d

MemoArgs ==
    /\ mdict = [i \in Instances |-> <<>>]
    /\ mfield \in [Instances -> 0..MaxField]
    /\ mcalls = [i \in Instances |-> [p \in Props |-> 0]]
    /\ mlog = <<>>

\* instance.p: Memoize.__get__(instance, owner)
ReadAttr ==
    /\ family = "memo" /\ Len(mlog) < MaxReads
    /\ \E i \in Instances, p \in Props :
          LET self == Descriptors[p]
              d == Memoize_get_dict(self, i, mdict[i], mfield[i])
          IN /\ mdict' = [mdict EXCEPT ![i] = d]
             /\ mcalls' = IF hasattr(mdict[i], self.cache_key) THEN mcalls
                          ELSE [mcalls EXCEPT ![i][p] = @ + 1]
             /\ mlog' = Append(mlog, [inst |-> i, prop |-> p, value |-> d[self.cache_key]])
    /\ UNCHANGED <<family, earlyVars, mfield>>
    /\ LateFrame("memo")

\* Owner.p: Memoize.__get__(None, owner) returns the descriptor
ReadOnClass ==
    /\ family = "memo" /\ Len(mlog) < MaxReads
    /\ \E p \in Props :
          mlog' = Append(mlog, [inst |-> "None", prop |-> p,
                                value |-> [type |-> "Memoize", by |-> "None",
                                           prop |-> Descriptors[p].fget, n |-> 0]])
    /\ UNCHANGED <<family, earlyVars, mdict, mfield, mcalls>>
    /\ LateFrame("memo")

\* the instance changes what the wrapped functions would compute
SetField ==
    /\ family = "memo"
    /\ \E i \in Instances, v \in 0..MaxField :
          /\ v # mfield[i]
          /\ mfield' = [mfield EXCEPT ![i] = v]
    /\ UNCHANGED <<family, earlyVars, mdict, mcalls, mlog>>
    /\ LateFrame("memo")

NextMemo ==
    \/ ReadAttr
    \/ ReadOnClass
    \/ SetField

InitMemo == family = "memo" /\ EarlyIdle /\ LateIdleExcept("memo") /\ MemoArgs

SpecMemo == InitMemo /\ [][NextMemo]_vars

InitKind == family = "kind" /\ RoundIdle /\ SeqIdle /\ KindArgs /\ PqIdle /\ LateIdle

SpecKind == InitKind /\ [][NextKind]_vars

InitSeq == family = "seq" /\ RoundIdle /\ SeqArgs /\ KindIdle /\ PqIdle /\ LateIdle

SpecSeq == InitSeq /\ [][NextSeq]_vars

InitRound == family = "round" /\ RoundArgs /\ SeqIdle /\ KindIdle /\ PqIdle /\ LateIdle

SpecRound == InitRound /\ [][NextRound]_vars

Init == InitRound \/ InitSeq \/ InitKind \/ InitPq \/ InitSer \/ InitCid \/ InitVer \/ InitBit \/ InitMerge \/ InitSym \/ InitGrp \/ InitYr \/ InitMemo

Next == NextRound \/ NextSeq \/ NextKind \/ NextPq \/ NextSer \/ NextCid \/ NextVer \/ NextBit \/ NextMerge \/ NextSym \/ NextGrp \/ NextYr \/ NextMemo

Spec == Init /\ [][Next]_vars

(***************************************************************************)
(* Properties of round_half_up (SpecRound).                                *)
(***************************************************************************)
RoundDone == family = "round" /\ rpc = "done"

\* The tie pattern of an integer n at ndigits nd, read off |n|: the digit at
\* 10^|nd| is even (0 when n has fewer digits), the digit below it is 5 and
\* the digits below that are 0.  At nd = 0 no digit lies below.
TiePattern(n, nd) ==
    /\ nd < 0
    /\ ((Abs(n) \div Pow10(-nd)) % 10) % 2 = 0
    /\ (Abs(n) \div Pow10(-nd - 1)) % 10 = 5
    /\ Abs(n) % Pow10(-nd - 1) = 0

\* n with the digits below 10^|nd| dropped.
TruncatedAt(n, nd) == (IF n < 0 THEN -1 ELSE 1) * (Abs(n) \div Pow10(-nd)) * Pow10(-nd)

\* n rounded away from zero to a multiple of 10^|nd|.
AwayFromZero(n, nd) == (IF n < 0 THEN -1 ELSE 1) * ((Abs(n) \div Pow10(-nd)) + 1) * Pow10(-nd)

\* C1: on the tie pattern (integer number, ndigits <= 0), round_half_up
\* returns the value rounded away from zero, while the built-in round gives
\* the half-to-even value.
C1_TieRoundsAwayFromZero ==
    (RoundDone /\ ndigits <= 0 /\ TiePattern(number.val, ndigits)) =>
        /\ result = Ok(AwayFromZero(number.val, ndigits))
        /\ PyRound(number.val, ndigits) = TruncatedAt(number.val, ndigits)

\* C2: off the tie pattern (integer number, ndigits <= 0), round_half_up
\* returns normally and equals int(round(number, ndigits)); at ndigits = 0
\* it returns the number itself.
C2_OtherwiseMatchesRound ==
    (RoundDone /\ ndigits <= 0 /\ ~TiePattern(number.val, ndigits)) =>
        /\ result = Ok(PyRound(number.val, ndigits))
        /\ ndigits = 0 => result = Ok(number.val)

ValidFiller(s, f) == IsText(s) => (f.type = s.type /\ Len(f.items) = 1)

\* The item a valid filler contributes at each padded position.
FillerItem(s, f) == IF IsText(s) THEN f.items[1] ELSE f

FillCalls == {i \in DOMAIN calls : calls[i].fn = "fill_seq"}
StripCalls == {i \in DOMAIN calls : calls[i].fn = "strip_seq"}

\* C4: fill_seq returns seq itself when len(seq) % size = 0, and otherwise
\* seq followed by exactly size - len(seq) % size copies of the filler, of
\* the same container type.
C4_FillPadsToNextMultiple ==
    \A i \in FillCalls :
        LET arg == calls[i].arg
            out == calls[i].out
            n == Len(arg.items)
        IN  ValidFiller(arg, filler) =>
              /\ out.type = arg.type
              /\ n % size = 0 => out = arg
              /\ n % size # 0 =>
                   /\ Len(out.items) = n + (size - (n % size))
                   /\ Len(out.items) % size = 0
                   /\ SubSeq(out.items, 1, n) = arg.items
                   /\ \A k \in (n + 1)..Len(out.items) :
                        out.items[k] = FillerItem(arg, filler)

\* C4 witness: a call padded a non-empty sequence with two or more fillers.
C4_Witness ==
    \E i \in FillCalls :
        /\ ValidFiller(calls[i].arg, filler)
        /\ Len(calls[i].arg.items) > 0
        /\ Len(calls[i].out.items) >= Len(calls[i].arg.items) + 2

\* C5: fill_seq applied to a value fill_seq returned gives that value back.
C5_FillIdempotent ==
    \A j \in FillCalls :
        (calls[j].src # 0 /\ calls[calls[j].src].fn = "fill_seq") =>
            calls[j].out = calls[calls[j].src].out

\* C5 witness: fill_seq was applied to a value that an earlier fill_seq had
\* padded.
C5_Witness ==
    \E j \in FillCalls :
        /\ calls[j].src # 0
        /\ calls[calls[j].src].fn = "fill_seq"
        /\ calls[calls[j].src].out # calls[calls[j].src].arg

\* strip_seq applied to the value that fill_seq returned for the argument seq.
StripOfFill(j) ==
    /\ j \in StripCalls
    /\ calls[j].src # 0
    /\ calls[calls[j].src].fn = "fill_seq"
    /\ calls[calls[j].src].src = 0

\* The filler differs from the trailing content of seq.
FillerDiffersFromTail ==
    seq.items = <<>> \/ seq.items[Len(seq.items)] # FillerItem(seq, filler)

\* C6 as claimed: for len(s) <= n and a filler that differs from the tail of
\* s, strip_seq(fill_seq(s, n, f), n) = s.
C6_StripUndoesFill ==
    \A j \in DOMAIN calls :
        (StripOfFill(j) /\ Len(seq.items) <= size /\ ValidFiller(seq, filler)
           /\ FillerDiffersFromTail)
        => calls[j].out = seq

\* C6 as amended: strip_seq returns the filled sequence unchanged, so the
\* result is s exactly when fill_seq added no padding (len(s) % n = 0).
C6_StripKeepsFilled ==
    \A j \in DOMAIN calls :
        (StripOfFill(j) /\ Len(seq.items) <= size /\ ValidFiller(seq, filler))
        => /\ calls[j].out = calls[calls[j].src].out
           /\ calls[j].out = seq <=> Len(seq.items) % size = 0

\* C6 witness: strip_seq was applied to a sequence fill_seq had padded.
C6_Witness ==
    \E j \in DOMAIN calls :
        /\ StripOfFill(j) /\ ValidFiller(seq, filler) /\ FillerDiffersFromTail
        /\ 0 < Len(seq.items) /\ Len(seq.items) < size

\* C7: strip_seq returns the longest prefix of seq whose length is a
\* multiple of size.
C7_StripLongestPrefix ==
    \A i \in StripCalls :
        LET arg == calls[i].arg
            out == calls[i].out
            n == Len(arg.items)
        IN  /\ out.type = arg.type
            /\ Len(out.items) % size = 0
            /\ Len(out.items) <= n
            /\ n - Len(out.items) < size
            /\ Len(out.items) = n - (n % size)
            /\ out.items = SubSeq(arg.items, 1, Len(out.items))
            /\ n % size = 0 => out = arg
            /\ n < size => out.items = <<>>

\* C7 witness: strip_seq returned a sequence it had nothing to drop from,
\* and one it dropped elements from leaving a non-empty prefix.
C7_Witness ==
    /\ \E i \in StripCalls : calls[i].out = calls[i].arg /\ calls[i].arg.items # <<>>
    /\ \E i \in StripCalls : calls[i].out # calls[i].arg /\ calls[i].out.items # <<>>

RECURSIVE Concat(_)
Concat(chunks) ==
    IF chunks = <<>> THEN <<>> ELSE Head(chunks).items \o Concat(Tail(chunks))

\* C8: the chunks of seq_grouper(s, n) concatenate to s; all but the last
\* have length n, the last is non-empty, and n >= len(s) > 0 gives the
\* single chunk s.
C8_ChunksReconstruct ==
    (family = "seq" /\ gen.state = "done") =>
        /\ Concat(gen.out) = seq.items
        /\ \A k \in DOMAIN gen.out : gen.out[k].type = seq.type
        /\ \A k \in 1..(Len(gen.out) - 1) : Len(gen.out[k].items) = size
        /\ gen.out # <<>> => gen.out[Len(gen.out)].items # <<>>
        /\ (size >= Len(seq.items) /\ Len(seq.items) > 0) => gen.out = <<seq>>

\* C8 witness: a finished grouping whose last chunk is shorter than the
\* others.
C8_Witness ==
    /\ family = "seq" /\ gen.state = "done"
    /\ Len(gen.out) >= 2
    /\ Len(gen.out[Len(gen.out)].items) < size

\* C9: an empty sequence yields no chunk, with and without a filler.
C9_EmptyYieldsNoChunk ==
    (family = "seq" /\ seq.items = <<>>) =>
        /\ gen.state = "done" => gen.out = <<>>
        /\ (fgen.state = "done" /\ ValidFiller(seq, filler)) => fgen.out = <<>>

\* C9 witness: both groupings of an empty sequence have finished.
C9_Witness ==
    /\ family = "seq" /\ seq.items = <<>> /\ size > 1
    /\ gen.state = "done" /\ fgen.state = "done" /\ ValidFiller(seq, filler)

\* C10: with a filler every chunk has length n, every chunk but the last is
\* the chunk seq_grouper(s, n) yields at that position, and the last one is
\* the last unfilled chunk followed by copies of the filler only.
C10_FillerOnlyInLastChunk ==
    (family = "seq" /\ gen.state = "done" /\ fgen.state = "done"
       /\ ValidFiller(seq, filler)) =>
        /\ Len(fgen.out) = Len(gen.out)
        /\ \A k \in DOMAIN fgen.out :
             /\ Len(fgen.out[k].items) = size
             /\ fgen.out[k].type = seq.type
        /\ \A k \in 1..(Len(fgen.out) - 1) : fgen.out[k] = gen.out[k]
        /\ fgen.out # <<>> =>
             LET last == fgen.out[Len(fgen.out)].items
                 plain == gen.out[Len(gen.out)].items
             IN  /\ SubSeq(last, 1, Len(plain)) = plain
                 /\ \A k \in (Len(plain) + 1)..Len(last) :
                      last[k] = FillerItem(seq, filler)

\* C10 witness: a finished grouping of a list padded with None in its last
\* of several chunks.
C10_Witness ==
    /\ family = "seq" /\ gen.state = "done" /\ fgen.state = "done"
    /\ seq.type = "list" /\ filler = NoneObj
    /\ Len(fgen.out) >= 2
    /\ Len(gen.out[Len(gen.out)].items) < size

\* A str or bytes filler whose length is not 1.
BadLengthFiller(f) == IsText(f) /\ Len(f.items) # 1

\* C11: for a str or bytes seq, fill_seq, and seq_grouper with a filler,
\* raise ValueError whenever len(filler) # 1, also when the length of seq
\* already divides by size; for a list or tuple the filler's length is not
\* looked at.
C11_FillerLengthCheckedFirst ==
    family = "seq" =>
        /\ \A i \in FillCalls :
             /\ (IsText(calls[i].arg) /\ BadLengthFiller(filler))
                  => calls[i].out = Exc("ValueError")
             /\ ~IsText(calls[i].arg) => ~IsExc(calls[i].out)
        /\ (fgen.state # "none" /\ IsText(seq) /\ BadLengthFiller(filler))
             => (fgen.state = "raised" /\ fgen.seq = Exc("ValueError"))
        /\ ~IsText(seq) => fgen.state # "raised"

\* C11 witness: fill_seq raised ValueError for a two-character filler on the
\* empty sequence, which needs no padding.
C11_Witness ==
    \E i \in FillCalls :
        /\ calls[i].arg.items = <<>> /\ IsText(calls[i].arg)
        /\ Len(filler.items) = 2
        /\ calls[i].out = Exc("ValueError")

(***************************************************************************)
(* Properties of KindTree (SpecKind).                                      *)
(***************************************************************************)
KindRun == family = "kind"
RowIds == {values[k].id : k \in DOMAIN values}
UniqueIds == \A j, k \in DOMAIN values : values[j].id = values[k].id => j = k
HasDuplicateId == ~UniqueIds
Resolving == \A k \in DOMAIN values : values[k].parent_id \in RowIds \cup {NoneId}
HasDanglingParent == ~Resolving

\* The parent the table gives an id (ids unique).
TableParent(id) == values[CHOOSE k \in DOMAIN values : values[k].id = id].parent_id

\* The ids above id in the table, followed for at most n links.
RECURSIVE TableAncestors(_, _)
TableAncestors(id, n) ==
    IF n = 0 \/ TableParent(id) = NoneId \/ TableParent(id) \notin RowIds THEN {}
    ELSE {TableParent(id)} \cup TableAncestors(TableParent(id), n - 1)

TreeBuilt == KindRun /\ kpc = "done"
Node(id) == treeNodes.map[id]

\* C12: a table with a duplicate id raises ValueError, and no node, no
\* constant attribute and no nodes mapping exists at any time.
C12_DuplicateIdRaisesFirst ==
    (KindRun /\ HasDuplicateId) =>
        /\ kpc \in {"loop1", "raised"}
        /\ kpc = "raised" => kexc = "ValueError"
        /\ nodes = EmptyDict /\ data2 = EmptyDict
        /\ attrs = EmptyDict
        /\ ~treeNodes.set

\* C12 witness: the constructor raised on a duplicate id after it had read a
\* row with a constant name.
C12_Witness ==
    /\ KindRun /\ HasDuplicateId /\ kpc = "raised" /\ kexc = "ValueError"
    /\ consts # EmptyDict

\* C13: parent_ids is the chain of table parents, nearest first, ending at a
\* row without parent; parent_id is its first and root_id its last element,
\* both None exactly when the chain is empty.
C13_AncestorChain ==
    TreeBuilt =>
        /\ DOMAIN treeNodes.map = RowIds
        /\ \A id \in RowIds :
             LET n == Node(id)
                 pids == n.parent_ids
             IN  /\ n.id = id
                 /\ pids = <<>> <=> TableParent(id) = NoneId
                 /\ pids # <<>> =>
                      /\ pids[1] = TableParent(id)
                      /\ \A j \in 1..(Len(pids) - 1) : pids[j + 1] = TableParent(pids[j])
                      /\ TableParent(pids[Len(pids)]) = NoneId
                      /\ n.parent_id = pids[1]
                      /\ n.root_id = pids[Len(pids)]
                 /\ pids = <<>> <=> n.parent_id = NoneId
                 /\ pids = <<>> <=> n.root_id = NoneId

\* C13 witness: a tree with a node two levels below its root.
C13_Witness ==
    /\ TreeBuilt
    /\ \E id \in RowIds : Len(Node(id).parent_ids) = 2 /\ Node(id).root_id # Node(id).parent_id

DirectChildren(id) == {m \in RowIds : Node(m).parent_id = id}

\* C14 as claimed: child_ids is exactly the set of nodes whose parent_id is
\* the node's id.
C14_ChildIdsAreDirectChildren ==
    TreeBuilt => \A id \in RowIds : Node(id).child_ids = DirectChildren(id)

\* C14 as amended: child_ids holds the direct children and, with them, every
\* row below the node in the table; it is the set of direct children exactly
\* when none of them has a child.
C14_ChildIdsIncludeDirectChildren ==
    TreeBuilt =>
        \A id \in RowIds :
            /\ DirectChildren(id) \subseteq Node(id).child_ids
            /\ Node(id).child_ids = {m \in RowIds : id \in TableAncestors(m, Len(values))}
            /\ Node(id).child_ids = DirectChildren(id)
                 <=> \A m \in DirectChildren(id) : DirectChildren(m) = {}

\* C14 witness: a node whose child_ids holds more than its direct children.
C14_Witness ==
    /\ TreeBuilt
    /\ \E id \in RowIds : Node(id).child_ids # DirectChildren(id)

\* C15: child_ids is the set of all nodes that list the node among their
\* parent_ids, and is empty for a leaf.
C15_ChildIdsAreDescendants ==
    TreeBuilt =>
        \A id \in RowIds :
            /\ Node(id).child_ids = {m \in RowIds : \E j \in DOMAIN Node(m).parent_ids :
                                                      Node(m).parent_ids[j] = id}
            /\ DirectChildren(id) = {} => Node(id).child_ids = {}

\* C15 witness: a root with a child and a grandchild, as root '1' of the
\* test table, whose grandchild is a leaf with no child_ids.
C15_Witness ==
    /\ TreeBuilt
    /\ \E r, c, g \in RowIds :
         /\ Node(r).parent_ids = <<>>
         /\ Node(c).parent_ids = <<r>>
         /\ Node(g).parent_ids = <<c, r>>
         /\ Node(r).child_ids = {c, g}
         /\ Node(g).child_ids = {}

\* The ids of args that the tree knows, in the order of args.
KnownArgs(args) == SelectSeq(args, LAMBDA id : id \in DOMAIN treeNodes.map)

QueryAnswered ==
    /\ qres.fn = "get" =>
         IF qres.args[1] \in RowIds THEN qres.out = <<Node(qres.args[1])>>
         ELSE qres.out = <<>>
    /\ qres.fn = "gets" =>
         /\ Len(qres.out) = Len(KnownArgs(qres.args))
         /\ \A j \in DOMAIN qres.out : qres.out[j] = Node(KnownArgs(qres.args)[j])

\* C16: gets returns the nodes of the known ids in the order and
\* multiplicity of its argument and skips the others, get returns the node
\* or None, and no call changes the tree.
C16_GetsKeepsArgumentOrder ==
    [][TreeBuilt => /\ QueryAnswered'
                    /\ treeNodes' = treeNodes
                    /\ attrs' = attrs
                    /\ kpc' = "done"]_vars

\* C16 witness: gets was called with two known ids against the order of the
\* tree.
C16_Witness ==
    /\ TreeBuilt /\ qres.fn = "gets"
    /\ qres.args = <<"b", "a">> /\ Len(qres.out) = 2

\* C17: every row with a constant name has an attribute of that name that
\* is the node get returns for the row's id, and the rows without one
\* create no attribute.
C17_ConstantIsTheRowsNode ==
    TreeBuilt =>
        /\ \A k \in DOMAIN values :
             values[k].const # NoneId =>
                 /\ values[k].const \in DOMAIN attrs
                 /\ get(treeNodes.map, values[k].id) = <<Node(attrs[values[k].const])>>
                 /\ attrs[values[k].const] = values[k].id
        /\ DOMAIN attrs = {values[k].const : k \in DOMAIN values} \ {NoneId}

\* C18: with unique ids and a parent_id that is the id of no row, the
\* constructor ends with KeyError, and no node, attribute or nodes mapping
\* is produced.
C18_DanglingParentRaisesKeyError ==
    (KindRun /\ UniqueIds /\ HasDanglingParent) =>
        /\ kpc # "done"
        /\ kpc = "raised" => kexc = "KeyError"
        /\ nodes = EmptyDict /\ attrs = EmptyDict /\ ~treeNodes.set

(***************************************************************************)
(* Properties of PrioQueue (SpecPq).                                       *)
(***************************************************************************)
PqRun == family = "pq"

\* The items in the queue when the g-th successful get was called.
Queued(g) == {j \in 1..getlog[g].nputs : \A h \in 1..(g - 1) : getlog[h].item # j}

\* C19: every get on a non-empty queue returns the item of a queued entry
\* whose priority is the smallest (asc) or the largest (not asc) of those
\* queued, and len(queue) is the number of puts minus the number of gets.
C19_GetReturnsExtremePriority ==
    PqRun =>
        /\ Len(_heap) = Len(putlog) - Len(getlog)
        /\ (pqres.fn = "get" /\ pqres.exc # "none") => _heap = <<>>
        /\ (pqres.fn = "get" /\ pqres.exc = "none") => pqres.item = getlog[Len(getlog)].item
        /\ \A g \in DOMAIN getlog :
             /\ getlog[g].item \in Queued(g)
             /\ \A j \in Queued(g) :
                  IF asc THEN putlog[getlog[g].item] <= putlog[j]
                  ELSE putlog[getlog[g].item] >= putlog[j]

\* C19 witness: a descending queue returned, out of three entries of
\* different priorities, one that was not put first, and then another.
C19_Witness ==
    /\ PqRun /\ ~asc /\ Len(getlog) >= 2
    /\ getlog[1].nputs >= 3
    /\ getlog[1].item # 1
    /\ \E j \in Queued(1) : putlog[j] < putlog[getlog[1].item]
    /\ \E j \in Queued(2) : putlog[j] < putlog[getlog[2].item]

\* C20: in both modes entries of equal priority come out in the order they
\* were put, and no put or get compares two items (TypeError).
C20_EqualPrioritiesFifo ==
    PqRun =>
        /\ pqres.exc # "TypeError"
        /\ \A g \in DOMAIN getlog :
             \A j \in Queued(g) :
                 putlog[j] = putlog[getlog[g].item] => getlog[g].item <= j

\* C20 witness: a descending queue held three entries of one priority and a
\* fourth of another, and returned the three in put order.
C20_Witness ==
    /\ PqRun /\ ~asc /\ Len(getlog) >= 3
    /\ \E g \in 1..(Len(getlog) - 2) :
         /\ Cardinality({j \in Queued(g) : putlog[j] = putlog[getlog[g].item]}) >= 3
         /\ Cardinality({putlog[j] : j \in Queued(g)}) >= 2
         /\ getlog[g].item < getlog[g + 1].item
         /\ getlog[g + 1].item < getlog[g + 2].item
         /\ putlog[getlog[g].item] = putlog[getlog[g + 2].item]
         /\ putlog[getlog[g].item] = putlog[getlog[g + 1].item]

(***************************************************************************)
(* Properties of DictSerializer (SpecSer).                                 *)
(***************************************************************************)
\* The dict whose items, in insertion order, are data.
RECURSIVE AsDict(_)
AsDict(data) ==
    IF data = <<>> THEN EmptyDict
    ELSE DictSet(AsDict(SubSeq(data, 1, Len(data) - 1)),
                 data[Len(data)].k, data[Len(data)].v)

\* C21: decode(encode(data)) == data for every dict of str keys and str or
\* list-of-str values, whatever characters they contain.
C21_DecodeInvertsEncode ==
    (family = "ser" /\ spc = "decoded") => sdec.d = AsDict(sdata)

(***************************************************************************)
(* Properties of CaseInsensitiveDict (SpecCid).                            *)
(***************************************************************************)
\* Two strings are equal ignoring case.
SameLetter(a, b) == a = b \/ {a, b} = {"c", "C"} \/ {a, b} = {"d", "D"}
EqIgnoreCase(a, b) == Len(a) = Len(b) /\ \A j \in DOMAIN a : SameLetter(a[j], b[j])
IsLowerCase(a) == \A j \in DOMAIN a : a[j] \notin {"C", "D"}

\* The stored keys of d that key addresses.
Entries(d, key) == {k \in DOMAIN d : EqIgnoreCase(k, key.s)}
EntryValue(d, key) == d[CHOOSE k \in Entries(d, key) : TRUE]

\* d and e agree on every entry that key does not address.
SameElsewhere(d, e, key) ==
    /\ DOMAIN d \ Entries(d, key) = DOMAIN e \ Entries(e, key)
    /\ \A k \in DOMAIN d \ Entries(d, key) : d[k] = e[k]

\* C22: stored keys are lowercase; d[k], d.get(k), k in d and del d[k]
\* address the one entry whose key equals k ignoring case; len(d) counts
\* those entries; None in d is False and does not raise.
C22_KeysIgnoreCase ==
    family = "cid" =>
        /\ \A k \in DOMAIN cdata : IsLowerCase(k)
        /\ \A key \in CidKeys : Cardinality(Entries(cdata, key)) <= 1
        /\ cres.op = "setitem" =>
             /\ Entries(cdata, cres.key) # {}
             /\ EntryValue(cdata, cres.key) = cres.val
             /\ SameElsewhere(cres.before, cdata, cres.key)
        /\ cres.op = "delitem" =>
             /\ cres.exc = (IF Entries(cres.before, cres.key) = {} THEN "KeyError" ELSE "none")
             /\ Entries(cdata, cres.key) = {}
             /\ SameElsewhere(cres.before, cdata, cres.key)
        /\ cres.op \in {"getitem", "get", "contains", "len"} => cdata = cres.before
        /\ cres.op = "getitem" =>
             IF Entries(cdata, cres.key) = {} THEN cres.exc = "KeyError"
             ELSE cres.exc = "none" /\ cres.out = EntryValue(cdata, cres.key)
        /\ cres.op = "get" =>
             /\ cres.exc = "none"
             /\ cres.out = (IF Entries(cdata, cres.key) = {} THEN NoneValue
                            ELSE EntryValue(cdata, cres.key))
        /\ cres.op = "contains" =>
             /\ cres.exc = "none"
             /\ cres.out = (cres.key.type = "str" /\ Entries(cdata, cres.key) # {})
        /\ cres.op = "len" =>
             cres.out = Cardinality({Entries(cdata, key) : key \in CidKeys} \ {{}})

(***************************************************************************)
(* Properties of Version (SpecVer).                                        *)
(***************************************************************************)
\* The (major, minor, revision) triple written in a version string.
Triple(ns) == [j \in 1..3 |-> IF j <= Len(ns) THEN ns[j] ELSE 0]

\* Lexicographic order on triples.
TripleLess(a, b) ==
    \E j \in 1..3 : a[j] < b[j] /\ \A i \in 1..(j - 1) : a[i] = b[i]

\* C23: parse fills the missing minor and revision with 0, parse('') is
\* None, and ==, <, <=, >, >= on parsed versions are the lexicographic
\* comparisons of the triples.
C23_VersionOrderIsLexicographic ==
    family = "ver" =>
        /\ \A i \in DOMAIN vobj :
             IF vin[i] = <<>> THEN vstr[i] = <<>> /\ vobj[i].none
             ELSE /\ ~vobj[i].none
                  /\ <<vobj[i].major, vobj[i].minor, vobj[i].revision>> = Triple(vin[i])
        /\ vcmp.set =>
             LET a == Triple(vin[1])
                 b == Triple(vin[2])
             IN  /\ vcmp.eq = (a = b)
                 /\ vcmp.lt = TripleLess(a, b)
                 /\ vcmp.le = (TripleLess(a, b) \/ a = b)
                 /\ vcmp.gt = TripleLess(b, a)
                 /\ vcmp.ge = (TripleLess(b, a) \/ a = b)

\* C23 witness: '10.2' was compared with '10.1.2', which differ first in the
\* minor number and the other way round in the revision.
C23_Witness ==
    /\ family = "ver" /\ vcmp.set
    /\ vin = <<(<<10, 2>>), (<<10, 1, 2>>)>>
    /\ vobj[1].revision = 0 /\ vcmp.gt

(***************************************************************************)
(* Properties of BitField (SpecBit).                                       *)
(***************************************************************************)
\* C24: has(v) is true exactly for the flags of the initial set or added and
\* not removed since; add and remove set and clear their flag, leave every
\* other flag as it was, and change nothing when the flag is already so.
C24_FlagsFollowAddAndRemove ==
    (family = "bit" /\ bpc = "made") =>
        /\ \A w \in Flags : has(bids, w) <=> w \in bhist
        /\ bres.op = "add" =>
             /\ has(bids, bres.value)
             /\ \A w \in Flags \ {bres.value} : has(bids, w) <=> has(bres.before, w)
             /\ has(bres.before, bres.value) => bids = bres.before
        /\ bres.op = "remove" =>
             /\ ~has(bids, bres.value)
             /\ \A w \in Flags \ {bres.value} : has(bids, w) <=> has(bres.before, w)
             /\ ~has(bres.before, bres.value) => bids = bres.before
        /\ bres.op = "has" =>
             /\ bids = bres.before
             /\ bres.out <=> bres.value \in bhist

\* C24 witness: a flag that was present was added once more while another
\* flag, removed before, stayed absent.
C24_Witness ==
    /\ family = "bit" /\ bpc = "made" /\ bres.op = "add"
    /\ has(bres.before, bres.value)
    /\ \E w \in Flags : w < bres.value /\ ~has(bids, w)
    /\ \E w \in Flags : w > bres.value /\ has(bids, w)

(***************************************************************************)
(* Properties of merge_sorted_list (SpecMerge).                            *)
(***************************************************************************)
\* How often x occurs in the list a.
Count(a, x) == Cardinality({j \in DOMAIN a : a[j] = x})

\* C25: for two ascending lists the generator yields len(a1) + len(a2)
\* values in non-decreasing order, the multiset union of the lists, and
\* leaves both lists as they were.
C25_MergeIsSortedUnion ==
    family = "merge" =>
        /\ ma1 = margs[1] /\ ma2 = margs[2]
        /\ \A j \in DOMAIN mout : ~mout[j].inf
        /\ \A j \in 1..(Len(mout) - 1) : mout[j].v <= mout[j + 1].v
        /\ mpc = "exhausted" =>
             /\ Len(mout) = Len(margs[1]) + Len(margs[2])
             /\ \A x \in 0..MaxMergeVal :
                  Count(mout, Finite(x)) = Count(margs[1], x) + Count(margs[2], x)

\* C25 witness: two lists that interleave and share a value were merged to
\* the end.
C25_Witness ==
    /\ family = "merge" /\ mpc = "exhausted"
    /\ margs = <<(<<0, 1, 2>>), (<<1, 1>>)>>
    /\ mout = <<Finite(0), Finite(1), Finite(1), Finite(1), Finite(2)>>

(***************************************************************************)
(* Symmetry of round_half_up (SpecSym).                                    *)
(***************************************************************************)
\* C26: for every integer n and ndigits <= 0 both calls return and
\* round_half_up(-n, ndigits) == -round_half_up(n, ndigits).
C26_RoundSymmetricAboutZero ==
    (family = "sym" /\ yneg # NotCalled) =>
        /\ ypos.exc = "none" /\ yneg.exc = "none"
        /\ yneg.val = -ypos.val /\ yneg.scale = ypos.scale

(***************************************************************************)
(* Termination of KindTree.__init__ (SpecKind).                            *)
(***************************************************************************)
\* C27: with unique ids the constructor ends by returning the tree or by
\* raising on a lookup, cyclic parent links included: no ancestor walk
\* visits more ancestors than the table has rows, and none runs on until
\* memory is exhausted.
C27_AncestorWalkTerminates ==
    (KindRun /\ UniqueIds) =>
        /\ Len(parent_ids) <= Len(values)
        /\ kexc # "MemoryError"

(***************************************************************************)
(* sequence_grouper and seq_grouper (SpecGrp).                             *)
(***************************************************************************)
\* C28: sequence_grouper(sequence, size) and seq_grouper(seq, size) yield
\* the same chunks in the same order: what one has yielded so far agrees
\* with the other, and both stop after the same number of chunks.
C28_GroupersYieldSameChunks ==
    family = "grp" =>
        /\ \A j \in DOMAIN gold.out \cap DOMAIN gnew.out : gold.out[j] = gnew.out[j]
        /\ gold.state = "done" => Len(gnew.out) <= Len(gold.out)
        /\ gnew.state = "done" => Len(gold.out) <= Len(gnew.out)

\* C28 witness: both generators are exhausted on a sequence whose length is
\* no multiple of size and spans more than one chunk.
C28_Witness ==
    /\ family = "grp" /\ gold.state = "done" /\ gnew.state = "done"
    /\ Len(gseq.items) % gsize # 0 /\ Len(gseq.items) > gsize
    /\ Len(gold.out) = (Len(gseq.items) \div gsize) + 1

(***************************************************************************)
(* yearly_ranges (SpecYr).                                                 *)
(***************************************************************************)
YrValidArgs == DateLe(yrargs.begin, yrargs.end) /\ yrargs.years >= 1

\* the list is non-empty, starts at begin, ends at end and each pair's end
\* is the next pair's begin
YrPartition(ranges) ==
    /\ Len(ranges) >= 1
    /\ ranges[1][1] = yrargs.begin
    /\ ranges[Len(ranges)][2] = yrargs.end
    /\ \A i \in 1..(Len(ranges) - 1) : ranges[i][2] = ranges[i + 1][1]

YrHolds(pair, fd) == DateLe(pair[1], fd) /\ DateLt(fd, pair[2])

\* C29: a finished call with begin <= end and years >= 1 returns, without
\* find_date, a non-empty contiguous list from begin to end; with find_date
\* the only pair of that list holding find_date when begin <= find_date <
\* end, and None otherwise; a call with begin > end or years <= 0 raises
\* ValueError.
C29_YearlyRangesPartition ==
    (family = "yr" /\ yrpc = "done") =>
        /\ ~YrValidArgs => yrres.kind = "ValueError"
        /\ (YrValidArgs /\ yrargs.find_date = NoDate) =>
               yrres.kind = "list" /\ YrPartition(yrres.value)
        /\ (YrValidArgs /\ yrargs.find_date # NoDate) =>
               IF YrHolds(<<yrargs.begin, yrargs.end>>, yrargs.find_date)
               THEN /\ yrres.kind = "pair"
                    /\ YrPartition(yrranges)
                    /\ \A i \in 1..Len(yrranges) :
                           YrHolds(yrranges[i], yrargs.find_date) <=> yrranges[i] = yrres.value
                    /\ \E i \in 1..Len(yrranges) : yrranges[i] = yrres.value
               ELSE yrres.kind = "None"

(***************************************************************************)
(* Memoize (SpecMemo).                                                     *)
(***************************************************************************)
\* the reads of property p on instance i, as positions of the log
ReadsOf(i, p) == {k \in 1..Len(mlog) : mlog[k].inst = i /\ mlog[k].prop = p}

FirstReadOf(i, p) == CHOOSE k \in ReadsOf(i, p) : \A j \in ReadsOf(i, p) : k <= j

\* C30: on each instance the wrapped function of a memoized property has run
\* once if the property was read and never otherwise; every read returned
\* the value of the first read; and that value was computed by this
\* property's function on this instance, not on another one.
C30_MemoizeComputesOnce ==
    family = "memo" =>
        \A i \in Instances, p \in Props :
            /\ mcalls[i][p] = (IF ReadsOf(i, p) = {} THEN 0 ELSE 1)
            /\ \A k \in ReadsOf(i, p) :
                   /\ mlog[k].value = mlog[FirstReadOf(i, p)].value
                   /\ mlog[k].value.type = "value"
                   /\ mlog[k].value.by = i
                   /\ mlog[k].value.prop = p

\* C30 witness: a property was read twice on one instance whose field
\* changed after the first read, and the same property was read on another
\* instance with another result.
C30_Witness ==
    /\ family = "memo"
    /\ \E i \in Instances, j \in Instances, p \in Props :
          /\ i # j
          /\ Cardinality(ReadsOf(i, p)) >= 2
          /\ mlog[FirstReadOf(i, p)].value.n # mfield[i]
          /\ ReadsOf(j, p) # {}
          /\ mlog[FirstReadOf(j, p)].value.n # mlog[FirstReadOf(i, p)].value.n

====
